---- MODULE Spec2Model ----
(***************************************************************************)
(* Message-processing pipeline of the kaoyan-408 QQ robot: the token       *)
(* controller (quota, daily and per-minute limits), the ban lookup, the    *)
(* session store (cache + durable store), the LangGraph routing state      *)
(* machine and the message router.  Times are seconds.                     *)
(***************************************************************************)
EXTENDS Integers, Sequences, FiniteSets, TLC

VARIABLES
    now,        \* the wall clock, datetime.now()
    quotas,     \* token_quotas table: user -> row
    procs,      \* the running consume() coroutines: proc -> frame
    calls,      \* number of consume()/route_message() calls started so far
    credited,   \* user -> sum of the tokens of the consume() calls that returned True
    quotas0,    \* the token_quotas table when the run started
    resets,     \* the users whose daily counters a reset_daily has rewritten
    g,          \* the run of LangGraphManager.process in progress
    users,      \* users table: user -> row
    contexts,   \* contexts table: context id -> row
    messages,   \* messages table: context id -> its rows in timestamp order
    cache,      \* Redis keys ctx:<id>: context id -> the serialized Context and its expiry
    bans,       \* ban_records table: user -> rows in insertion order
    rt,         \* the route_message call in progress
    res,        \* what the last route_message call gave its caller
    op,         \* the last session-store call and what it gave its caller
    user_requests, \* BanManager._user_requests: user -> the timestamps it tracks
    user_messages, \* BanManager._user_messages: user -> the timestamps of its messages
    user_content,  \* BanManager._user_content: user -> its (timestamp, content) pairs
    tasks,      \* the detect_abuse coroutines handed to the event loop
    adds,       \* the add_message coroutines under way: coroutine -> frame
    recognizer, \* IntentRecognizer: rules and _compiled_patterns
    recognized, \* the latest recognize call of each pipeline run and its result
    ruleop,     \* the last add_rule / remove_rules_by_intent call and what it returned
    banop       \* the last BanManager call and what it gave its caller

quotaVars == <<now, quotas, procs, calls, credited, quotas0, resets>>

storeVars == <<users, contexts, messages, cache>>

routeVars == <<bans, rt, res>>

recVars == <<recognizer, recognized, ruleop>>

mgrVars == <<op, user_requests, user_messages, user_content, tasks, adds, banop, recVars>>

vars == <<now, quotas, procs, calls, credited, quotas0, resets, g,
          users, contexts, messages, cache, bans, rt, res,
          op, user_requests, user_messages, user_content, tasks, adds, banop,
          recognizer, recognized, ruleop>>

\* ------------------------------------------------------------------ bounds

MaxTime == 60
MaxCalls == 2
MaxRoutes == 2
MaxAdds == 202
MaxIdleTime == 3600
MaxStorageOps == 3
MaxBanOps == 3
MaxDetects == 12
MaxOtherDetects == 1
MaxAbuseBans == 1
MaxLogDetects == 1
MaxRepeatDetects == 4
MaxBanTime == 7200
MaxSessionOps == 4

\* ------------------------------------------------------- program constants

DEFAULT_TOTAL_QUOTA == 50000
DEFAULT_DAILY_LIMIT == 5000
DEFAULT_MINUTE_LIMIT == 200
MinuteWindow == 60
DaySeconds == 86400
HourSeconds == 3600
MAX_MESSAGES == 200
CONTEXT_TTL == 3600

\* ------------------------------------------------------------ input sets

Users == {"u1", "u2"}
Procs == {"p1", "p2"}
TickSteps == {30}
GroupIds == {"none", "g1"}
TokenAmounts == {1, 2, DEFAULT_DAILY_LIMIT + 1}

Max(a, b) == IF a >= b THEN a ELSE b

\* ===================================================================
\* TokenQuota (storage/models.py) and TokenQuotaRepository (storage/database.py)
\* ===================================================================

NoQuota ==
    [exists |-> FALSE, total_quota |-> 0, used |-> 0, daily_limit |-> 0,
     daily_used |-> 0, daily_reset |-> 0, minute_limit |-> 1,
     minute_requests |-> <<>>]

\* A validator that keeps every timestamp.
validate_minute_requests_keep_all(v, t) == v

\* [ts for ts in v if (now - ts).total_seconds() < 60]
validate_minute_requests(v, t) ==
    LET Recent(ts) == t - ts < MinuteWindow
    IN SelectSeq(v, Recent)

\* The row as a TokenQuota built at time t: the field validator prunes the log.
\* The JSON list of isoformat strings round-trips every datetime unchanged.
quota_orm_to_model(row, t) ==
    [row EXCEPT !.minute_requests = validate_minute_requests(@, t)]

remaining(q) == Max(0, q.total_quota - q.used)

daily_remaining(q) == Max(0, q.daily_limit - q.daily_used)

is_minute_limit_exceeded(q, t) ==
    Len(validate_minute_requests(q.minute_requests, t)) >= q.minute_limit

\* TokenController._create_default_quota: the row written at time t.
create_default_quota(t) ==
    [exists |-> TRUE, total_quota |-> DEFAULT_TOTAL_QUOTA, used |-> 0,
     daily_limit |-> DEFAULT_DAILY_LIMIT, daily_used |-> 0,
     daily_reset |-> t + DaySeconds, minute_limit |-> DEFAULT_MINUTE_LIMIT,
     minute_requests |-> <<>>]

\* check_quota without its daily check.
check_quota_on_no_daily(q, tokens, t) ==
    IF remaining(q) < tokens THEN "quota"
    ELSE IF is_minute_limit_exceeded(q, t) THEN "minute"
    ELSE "ok"

\* The checks of check_quota on a TokenQuota object, in the code's order.
check_quota_on(q, tokens, t) ==
    IF remaining(q) < tokens THEN "quota"
    ELSE IF daily_remaining(q) < tokens THEN "daily"
    ELSE IF is_minute_limit_exceeded(q, t) THEN "minute"
    ELSE "ok"

\* TokenQuotaRepository.increment_used, between its get and its update.
increment_used_local(q, tokens) ==
    [q EXCEPT !.used = @ + tokens, !.daily_used = @ + tokens]

\* A reset that moves daily_reset one day on from where it was.
reset_daily_local_from_reset(q, t) ==
    [q EXCEPT !.daily_used = 0, !.daily_reset = @ + DaySeconds]

\* TokenQuotaRepository.reset_daily, between its get and its update.
reset_daily_local(q, t) ==
    [q EXCEPT !.daily_used = 0, !.daily_reset = t + DaySeconds]

\* TokenController._record_request, before its update.
record_request_local(q, t) ==
    [q EXCEPT !.minute_requests = Append(validate_minute_requests(@, t), t)]

\* ===================================================================
\* TokenController.consume as a coroutine: one action per database round trip
\* ===================================================================

IdleFrame ==
    [pc |-> "idle", user |-> "u1", tokens |-> 0, q |-> NoQuota,
     pre |-> NoQuota, t0 |-> 0, ret |-> "none"]

\* What the frame does once check_quota has its TokenQuota object q at time t.
AfterCheck(f, q, t) ==
    IF check_quota_on(q, f.tokens, t) = "ok"
    THEN [f EXCEPT !.pc = "inc_get", !.q = q]
    ELSE [f EXCEPT !.pc = "done", !.q = q, !.ret = "false"]

\* consume() is called: check_quota -> get_quota -> quota_repo.get.
ConsumeCall(p, u, n) ==
    /\ procs[p].pc = "idle"
    /\ calls < MaxCalls
    /\ calls' = calls + 1
    /\ LET row == quotas[u]
           f0 == [IdleFrame EXCEPT !.user = u, !.tokens = n, !.pre = row, !.t0 = now]
           q == quota_orm_to_model(row, now)
       IN procs' = [procs EXCEPT ![p] =
              IF ~row.exists THEN [f0 EXCEPT !.pc = "create"]
              ELSE IF now >= q.daily_reset THEN [f0 EXCEPT !.pc = "reset_get"]
              ELSE AfterCheck(f0, q, now)]
    /\ UNCHANGED <<now, quotas, credited, quotas0, resets, g, storeVars, routeVars, mgrVars>>

\* get_quota found no row: _create_default_quota -> quota_repo.create.
\* user_id is the primary key: a row created meanwhile makes the INSERT fail.
ConsumeCreate(p) ==
    LET f == procs[p] IN
    /\ f.pc = "create"
    /\ IF quotas[f.user].exists
       THEN /\ procs' = [procs EXCEPT ![p] = [f EXCEPT !.pc = "done", !.ret = "raise"]]
            /\ UNCHANGED quotas
       ELSE /\ quotas' = [quotas EXCEPT ![f.user] = create_default_quota(now)]
            /\ procs' = [procs EXCEPT ![p] = AfterCheck(f, create_default_quota(now), now)]
    /\ UNCHANGED <<now, calls, credited, quotas0, resets, g, storeVars, routeVars, mgrVars>>

\* _check_and_reset_daily -> quota_repo.reset_daily: its get.
ConsumeResetGet(p) ==
    LET f == procs[p] IN
    /\ f.pc = "reset_get"
    /\ procs' = [procs EXCEPT ![p] =
           [f EXCEPT !.pc = "reset_upd",
                     !.q = reset_daily_local(quota_orm_to_model(quotas[f.user], now), now)]]
    /\ UNCHANGED <<now, quotas, calls, credited, quotas0, resets, g, storeVars, routeVars, mgrVars>>

\* quota_repo.reset_daily: its update writes every column of the object.
ConsumeResetUpdate(p) ==
    LET f == procs[p] IN
    /\ f.pc = "reset_upd"
    /\ quotas' = [quotas EXCEPT ![f.user] = f.q]
    /\ procs' = [procs EXCEPT ![p] = AfterCheck(f, f.q, now)]
    /\ resets' = resets \cup {f.user}
    /\ UNCHANGED <<now, calls, credited, quotas0, g, storeVars, routeVars, mgrVars>>

\* quota_repo.increment_used: its get, then the two += on the object.
ConsumeIncGet(p) ==
    LET f == procs[p] IN
    /\ f.pc = "inc_get"
    /\ procs' = [procs EXCEPT ![p] =
           [f EXCEPT !.pc = "inc_upd",
                     !.q = increment_used_local(quota_orm_to_model(quotas[f.user], now), f.tokens)]]
    /\ UNCHANGED <<now, quotas, calls, credited, quotas0, resets, g, storeVars, routeVars, mgrVars>>

\* quota_repo.increment_used: its update; _record_request then prunes and appends
\* on the returned object before it awaits its own update.
ConsumeIncUpdate(p) ==
    LET f == procs[p] IN
    /\ f.pc = "inc_upd"
    /\ quotas' = [quotas EXCEPT ![f.user] = f.q]
    /\ procs' = [procs EXCEPT ![p] =
           [f EXCEPT !.pc = "rec_upd", !.q = record_request_local(f.q, now)]]
    /\ UNCHANGED <<now, calls, credited, quotas0, resets, g, storeVars, routeVars, mgrVars>>

\* _record_request: quota_repo.update writes every column; consume returns True.
ConsumeRecordUpdate(p) ==
    LET f == procs[p] IN
    /\ f.pc = "rec_upd"
    /\ quotas' = [quotas EXCEPT ![f.user] = f.q]
    /\ procs' = [procs EXCEPT ![p] = [f EXCEPT !.pc = "done", !.ret = "true"]]
    /\ credited' = [credited EXCEPT ![f.user] = @ + f.tokens]
    /\ UNCHANGED <<now, calls, quotas0, resets, g, storeVars, routeVars, mgrVars>>

\* The caller takes the result; the coroutine frame is gone.
ConsumeReturn(p) ==
    /\ procs[p].pc = "done"
    /\ procs' = [procs EXCEPT ![p] = IdleFrame]
    /\ UNCHANGED <<now, quotas, calls, credited, quotas0, resets, g, storeVars, routeVars, mgrVars>>

\* Time passes.
Tick(d) ==
    /\ now + d <= MaxTime
    /\ now' = now + d
    /\ UNCHANGED <<quotas, procs, calls, credited, quotas0, resets, g, storeVars, routeVars, mgrVars>>

ConsumeStep(p) ==
    \/ \E u \in Users, n \in TokenAmounts : ConsumeCall(p, u, n)
    \/ ConsumeCreate(p)
    \/ ConsumeResetGet(p)
    \/ ConsumeResetUpdate(p)
    \/ ConsumeIncGet(p)
    \/ ConsumeIncUpdate(p)
    \/ ConsumeRecordUpdate(p)
    \/ ConsumeReturn(p)

\* ===================================================================
\* RobotState and the routing state machine (core/state.py, core/langgraph.py)
\* ===================================================================

IntentTypes ==
    {"chat", "weather", "role_play", "context_create", "context_join",
     "context_leave", "context_end", "user_ban", "command", "unknown"}

ContextIntents == {"context_create", "context_join", "context_leave", "context_end"}

\* The intents of the router runs: one routed straight to the response
\* generator, one routed through the context loader.
RouterIntents == {"chat", "context_end"}

\* The user-facing texts of _error_handler_node and _response_generator_node.
MSG_CLASSIFY == "sorry: cannot understand"
MSG_CONTEXT == "sorry: context load error"
MSG_GENERATE == "sorry: reply generation error"
MSG_GENERIC == "sorry: request processing error"

\* What a try block met: nothing, or an exception e with str(e) = text.
NoExc == [raised |-> FALSE, text |-> ""]

\* An exception of a repository call: the database is unreachable.
DbError == [raised |-> TRUE, text |-> "internal error text"]
Excs == {NoExc, [raised |-> TRUE, text |-> ""], [raised |-> TRUE, text |-> "internal error text"]}

\* What the response generator gave: the default text (no generator injected),
\* the injected generator's text, or its exception.
GenOutcomes ==
    {[injected |-> FALSE, text |-> "", exc |-> NoExc]} \cup
    {[injected |-> TRUE, text |-> t, exc |-> NoExc] : t \in {"", "generated reply"}} \cup
    {[injected |-> TRUE, text |-> "", exc |-> e] : e \in Excs \ {NoExc}}

\* The response generators of the router runs: none injected, one that answers,
\* one that raises.
RouterGens ==
    {[injected |-> FALSE, text |-> "", exc |-> NoExc],
     [injected |-> TRUE, text |-> "generated reply", exc |-> NoExc],
     [injected |-> TRUE, text |-> "", exc |-> [raised |-> TRUE, text |-> "internal error text"]]}

\* create_initial_state: the fields of RobotState the pipeline reads and writes.
create_initial_state(user, context_id) ==
    [user_id |-> user, context_id |-> context_id, processing_stage |-> "received",
     intent |-> "unknown", response |-> "", error_message |-> "", error_code |-> "none"]

is_terminal_state(st) == st.processing_stage \in {"completed", "failed"}

input_processor_node(st, exc) ==
    IF exc.raised
    THEN [st EXCEPT !.error_message = exc.text, !.error_code = "INPUT_PROCESS_ERROR",
                    !.processing_stage = "failed"]
    ELSE [st EXCEPT !.processing_stage = "preprocessing"]

should_continue_after_input(st) ==
    IF st.error_message # "" THEN "error" ELSE "continue"

intent_classifier_node(st, intent, exc) ==
    IF exc.raised
    THEN [st EXCEPT !.error_message = exc.text, !.error_code = "INTENT_CLASSIFY_ERROR",
                    !.processing_stage = "failed", !.intent = "unknown"]
    ELSE [st EXCEPT !.processing_stage = "intent_classifying", !.intent = intent]

\* _route_by_intent followed by the edge map of _build_graph.
route_by_intent(st) ==
    IF st.error_message # "" THEN "error_handler"
    ELSE IF st.intent = "weather" THEN "response_generator"
    ELSE IF st.intent = "role_play" THEN "response_generator"
    ELSE IF st.intent \in ContextIntents THEN "context_loader"
    ELSE "response_generator"

context_loader_node(st, exc) ==
    IF exc.raised
    THEN [st EXCEPT !.error_message = exc.text, !.error_code = "CONTEXT_LOAD_ERROR",
                    !.processing_stage = "failed"]
    ELSE [st EXCEPT !.processing_stage = "processing"]

should_continue_after_context(st) ==
    IF st.error_message # "" THEN "error_handler" ELSE "response_generator"

generate_default_response(st) ==
    IF st.intent = "weather" THEN "weather lookup reply"
    ELSE IF st.intent = "role_play" THEN "role play reply"
    ELSE IF st.intent = "chat" THEN "echo reply"
    ELSE "message received reply"

response_generator_node(st, gen) ==
    IF gen.exc.raised
    THEN [st EXCEPT !.error_message = gen.exc.text, !.error_code = "RESPONSE_GENERATE_ERROR",
                    !.processing_stage = "failed", !.response = MSG_GENERATE]
    ELSE [st EXCEPT !.processing_stage = "postprocessing",
                    !.response = IF gen.injected THEN gen.text
                                 ELSE generate_default_response(st)]

\* _should_end: both branches return "end".
should_end(st) == "end"

error_handler_node(st) ==
    [st EXCEPT !.processing_stage = "failed",
               !.response = IF st.error_code = "INTENT_CLASSIFY_ERROR" THEN MSG_CLASSIFY
                            ELSE IF st.error_code = "CONTEXT_LOAD_ERROR" THEN MSG_CONTEXT
                            ELSE IF st.error_code = "RESPONSE_GENERATE_ERROR" THEN MSG_GENERATE
                            ELSE MSG_GENERIC]

\* process, after graph.ainvoke returned the graph's final state.
process_completed(st) == [st EXCEPT !.processing_stage = "completed"]

\* process, when graph.ainvoke raised e: the caller's state object, which the
\* graph never touched (it ran on state.model_dump()), gets the error fields.
process_failed(st0, exc) ==
    [st0 EXCEPT !.error_message = exc.text, !.error_code = "GRAPH_EXECUTION_ERROR",
                !.processing_stage = "failed"]

\* ---- one run of process, node by node

\* The stage trace of a state object: a stage is entered when processing_stage
\* changes to it.
Enter(trace, from, to) == IF from = to THEN trace ELSE Append(trace, to)

NoRun ==
    [pc |-> "none", st |-> create_initial_state("u1", "none"),
     st0 |-> create_initial_state("u1", "none"),
     visited |-> <<>>, stages |-> <<>>, failures |-> {}]

StartRun(st) ==
    [pc |-> "input_processor", st |-> st, st0 |-> st,
     visited |-> <<>>, stages |-> <<>>, failures |-> {}]

\* The run after node `node` turned its state into st2 and the edge chose `next`;
\* `mid` is a stage the node passed through before the one it returned.
Moved(node, mid, st2, next, failed) ==
    [g EXCEPT !.pc = next, !.st = st2,
              !.visited = Append(@, node),
              !.stages = Enter(Enter(@, g.st.processing_stage, mid), mid, st2.processing_stage),
              !.failures = IF failed THEN @ \cup {st2.error_code} ELSE @]

\* The try block calls TextHelper.clean_text and the EntityHelper extractors on a
\* str: string functions that raise nothing.
GraphInput ==
    /\ g.pc = "input_processor"
    /\ LET st2 == input_processor_node(g.st, NoExc)
           next == IF should_continue_after_input(st2) = "error"
                   THEN "error_handler" ELSE "intent_classifier"
       IN g' = Moved("input_processor", g.st.processing_stage, st2, next, FALSE)
    /\ UNCHANGED <<quotaVars, storeVars, routeVars, mgrVars>>

\* The node sets INTENT_CLASSIFYING first, inside its try block.
GraphIntent(intent, exc) ==
    /\ g.pc = "intent_classifier"
    /\ LET st2 == intent_classifier_node(g.st, intent, exc)
       IN g' = Moved("intent_classifier", "intent_classifying", st2,
                     route_by_intent(st2), exc.raised)
    /\ UNCHANGED <<quotaVars, storeVars, routeVars, mgrVars>>

\* The node sets CONTEXT_LOADING, then PROCESSING: its try block holds these two
\* assignments of enum members and raises nothing.
GraphContext ==
    /\ g.pc = "context_loader"
    /\ LET st2 == context_loader_node(g.st, NoExc)
       IN g' = Moved("context_loader", "context_loading", st2,
                     should_continue_after_context(st2), FALSE)
    /\ UNCHANGED <<quotaVars, storeVars, routeVars, mgrVars>>

\* The node sets PROCESSING first, inside its try block.
GraphGenerate(gen) ==
    /\ g.pc = "response_generator"
    /\ LET st2 == response_generator_node(g.st, gen)
           next == IF should_end(st2) = "end" THEN "end" ELSE "response_generator"
       IN g' = Moved("response_generator", "processing", st2, next, gen.exc.raised)
    /\ UNCHANGED <<quotaVars, storeVars, routeVars, mgrVars>>

GraphErrorHandler ==
    /\ g.pc = "error_handler"
    /\ LET st2 == error_handler_node(g.st)
       IN g' = Moved("error_handler", g.st.processing_stage, st2, "end", FALSE)
    /\ UNCHANGED <<quotaVars, storeVars, routeVars, mgrVars>>

\* graph.ainvoke returned: process marks the state COMPLETED and returns it.
ProcessReturn ==
    /\ g.pc = "end"
    /\ LET st2 == process_completed(g.st)
       IN g' = [g EXCEPT !.pc = "returned", !.st = st2,
                         !.stages = Enter(@, g.st.processing_stage, st2.processing_stage)]
    /\ UNCHANGED <<quotaVars, storeVars, routeVars, mgrVars>>

\* graph.ainvoke raised: process returns the caller's state with the error fields.
\* No node ran on that object (the graph worked on state.model_dump()): FAILED is
\* the one stage it enters.
ProcessGraphError(exc) ==
    /\ g.pc \in {"input_processor", "intent_classifier", "context_loader",
                 "response_generator", "error_handler", "end"}
    /\ exc.raised
    /\ LET st2 == process_failed(g.st0, exc)
       IN g' = [g EXCEPT !.pc = "returned", !.st = st2, !.visited = <<>>,
                         !.stages = Enter(<<>>, g.st0.processing_stage, st2.processing_stage),
                         !.failures = {"GRAPH_EXECUTION_ERROR"}]
    /\ UNCHANGED <<quotaVars, storeVars, routeVars, mgrVars>>

\* A step of the run, the classifier answering with one of `intents` and the
\* response generator behaving as one of `gens`.
GraphStepOn(intents, gens) ==
    \/ GraphInput
    \/ \E intent \in intents, exc \in Excs : GraphIntent(intent, exc)
    \/ GraphContext
    \/ \E gen \in gens : GraphGenerate(gen)
    \/ GraphErrorHandler
    \/ ProcessReturn
    \/ \E exc \in Excs : ProcessGraphError(exc)

GraphStep == GraphStepOn(IntentTypes, GenOutcomes)

\* ===================================================================
\* The session store (core/context.py, storage/cache.py, storage/database.py)
\* ===================================================================

\* The ids IDHelper.generate_context_id hands out, in the order it hands them out.
CtxIds == <<"ctx_1", "ctx_2", "ctx_3", "ctx_4">>

CtxIdSet == {CtxIds[i] : i \in 1..Len(CtxIds)}

NoneId == "none"

\* expires_at of a session that never expires and of a permanent ban: None.
NoneTime == -1

NoUser == [exists |-> FALSE, is_banned |-> FALSE, current_context_id |-> NoneId]

NoContextRow ==
    [exists |-> FALSE, type |-> "private", creator_id |-> NoneId,
     participants |-> <<>>, status |-> "active", expires_at |-> NoneTime]

\* A Context object; context_id = NoneId stands for None.
NoneContext ==
    [context_id |-> NoneId, type |-> "private", creator_id |-> NoneId,
     participants |-> <<>>, status |-> "active", expires_at |-> NoneTime,
     messages |-> <<>>]

\* ContextCache._serialize: the JSON text, as the list of its values in key
\* order; each message is dumped to a dict, its role enum to its value.
context_serialize(ctx) ==
    <<ctx.context_id, ctx.type, ctx.creator_id, ctx.participants, ctx.status,
      [i \in 1..Len(ctx.messages) |->
          <<ctx.messages[i].message_id, ctx.messages[i].sender_id, ctx.messages[i].role>>],
      ctx.expires_at>>

\* ContextCache._deserialize: Context(...) built from the parsed JSON,
\* ChatMessage(**msg) for every message in its order.
context_deserialize(data) ==
    [context_id |-> data[1], type |-> data[2], creator_id |-> data[3],
     participants |-> data[4], status |-> data[5], expires_at |-> data[7],
     messages |-> [i \in 1..Len(data[6]) |->
          [message_id |-> data[6][i][1], sender_id |-> data[6][i][2],
           role |-> data[6][i][3]]]]

\* A Redis key that is not there.
NoEntry == [present |-> FALSE, expires_at |-> 0, data |-> context_serialize(NoneContext)]

EmptyStore ==
    [users |-> [u \in Users |-> NoUser],
     contexts |-> [c \in CtxIdSet |-> NoContextRow],
     messages |-> [c \in CtxIdSet |-> <<>>],
     cache |-> [c \in CtxIdSet |-> NoEntry]]

\* The store as the variables hold it.
Store == [users |-> users, contexts |-> contexts, messages |-> messages, cache |-> cache]

ContextCount(S) == Cardinality({c \in CtxIdSet : S.contexts[c].exists})

generate_context_id(S) == CtxIds[ContextCount(S) + 1]

\* ChatMessage: message_id is unique; the messages table is append-only, so the
\* row count of the context numbers the message.
ChatMessage(S, cid, sender_id, role) ==
    [message_id |-> Len(S.messages[cid]) + 1, sender_id |-> sender_id, role |-> role]

\* ContextRepository._orm_to_model: every row of the context in the messages
\* table, ordered by timestamp, under max_messages = 200.
context_orm_to_model(S, cid) ==
    [context_id |-> cid, type |-> S.contexts[cid].type,
     creator_id |-> S.contexts[cid].creator_id,
     participants |-> S.contexts[cid].participants,
     status |-> S.contexts[cid].status, expires_at |-> S.contexts[cid].expires_at,
     messages |-> S.messages[cid]]

\* ContextRepository.get
context_repo_get(S, cid) ==
    IF cid \in CtxIdSet /\ S.contexts[cid].exists
    THEN context_orm_to_model(S, cid) ELSE NoneContext

\* A cache that never answers with a session.
cache_get_miss(S, cid, t) == NoneContext

\* ContextCache.get under RedisContextStorage.get: the key is there until its
\* time to live has run out.
cache_get(S, cid, t) ==
    IF cid \in CtxIdSet /\ S.cache[cid].present /\ t < S.cache[cid].expires_at
    THEN context_deserialize(S.cache[cid].data) ELSE NoneContext

\* ContextCache.set under RedisContextStorage.save: SETEX with ttl_seconds of
\* the serialized Context, every message and max_messages included.
cache_save(S, ctx, t) ==
    [S EXCEPT !.cache[ctx.context_id] =
        [present |-> TRUE, expires_at |-> t + CONTEXT_TTL, data |-> context_serialize(ctx)]]

\* ContextRepository.create: one row in contexts; no message is inserted.
context_repo_create(S, ctx) ==
    [S EXCEPT !.contexts[ctx.context_id] =
        [exists |-> TRUE, type |-> ctx.type, creator_id |-> ctx.creator_id,
         participants |-> ctx.participants, status |-> ctx.status,
         expires_at |-> ctx.expires_at]]

\* ContextRepository.update: the columns of the contexts row; creator_id and the
\* messages are not written.
context_repo_update(S, ctx) ==
    [S EXCEPT !.contexts[ctx.context_id].type = ctx.type,
              !.contexts[ctx.context_id].participants = ctx.participants,
              !.contexts[ctx.context_id].status = ctx.status,
              !.contexts[ctx.context_id].expires_at = ctx.expires_at]

\* DatabaseContextStorage.save
db_save(S, ctx) ==
    IF context_repo_get(S, ctx.context_id).context_id # NoneId
    THEN context_repo_update(S, ctx) ELSE context_repo_create(S, ctx)

\* ContextCache.delete under RedisContextStorage.delete: DEL of the key.
cache_delete(S, cid) ==
    IF cid \in CtxIdSet THEN [S EXCEPT !.cache[cid] = NoEntry] ELSE S

\* RedisContextStorage.save, as [store, ok]: an exception of the cache write is
\* logged and False returned.
redis_storage_save(S, ctx, t, exc) ==
    IF exc.raised THEN [store |-> S, ok |-> FALSE]
    ELSE [store |-> cache_save(S, ctx, t), ok |-> TRUE]

\* RedisContextStorage.delete, as [store, ok]
redis_storage_delete(S, cid, exc) ==
    IF exc.raised THEN [store |-> S, ok |-> FALSE]
    ELSE [store |-> cache_delete(S, cid), ok |-> TRUE]

\* DatabaseContextStorage.save, as [store, ok]: an exception of the session is
\* logged and False returned, nothing committed.
database_storage_save(S, ctx, exc) ==
    IF exc.raised THEN [store |-> S, ok |-> FALSE]
    ELSE [store |-> db_save(S, ctx), ok |-> TRUE]

\* A delete that removes the row of the session.
database_storage_delete_hard(S, cid, exc) ==
    IF exc.raised \/ ~S.contexts[cid].exists THEN [store |-> S, ok |-> FALSE]
    ELSE [store |-> [S EXCEPT !.contexts[cid] = NoContextRow], ok |-> TRUE]

\* DatabaseContextStorage.delete, as [store, ok]: the row stays, its status
\* becomes DELETED; False when there is no row.
database_storage_delete(S, cid, exc) ==
    LET context == context_repo_get(S, cid)
    IN IF exc.raised \/ context.context_id = NoneId THEN [store |-> S, ok |-> FALSE]
       ELSE [store |-> context_repo_update(S, [context EXCEPT !.status = "deleted"]),
             ok |-> TRUE]

\* A get that leaves the cache as it found it.
hybrid_storage_get_no_fill(S, cid, t, fill_exc) ==
    LET cached == cache_get(S, cid, t)
        stored == context_repo_get(S, cid)
    IN IF cached.context_id # NoneId
       THEN [store |-> S, ctx |-> cached, db_read |-> FALSE]
       ELSE [store |-> S, ctx |-> stored, db_read |-> TRUE]

\* HybridContextStorage.get, as [store, ctx, db_read]: the cache first; on a
\* miss the durable store, written back to the cache; `fill_exc` is what the
\* write-back met.
hybrid_storage_get(S, cid, t, fill_exc) ==
    LET cached == cache_get(S, cid, t)
        stored == context_repo_get(S, cid)
    IN IF cached.context_id # NoneId
       THEN [store |-> S, ctx |-> cached, db_read |-> FALSE]
       ELSE IF stored.context_id # NoneId
            THEN [store |-> redis_storage_save(S, stored, t, fill_exc).store,
                  ctx |-> stored, db_read |-> TRUE]
            ELSE [store |-> S, ctx |-> NoneContext, db_read |-> TRUE]

\* A save that gives up once the cache write has failed.
hybrid_storage_save_short_circuit(S, ctx, t, cache_exc, db_exc) ==
    LET c == redis_storage_save(S, ctx, t, cache_exc)
        d == database_storage_save(c.store, ctx, db_exc)
    IN IF c.ok THEN [store |-> d.store, ok |-> d.ok, cache_ok |-> TRUE, db_ok |-> d.ok]
       ELSE [store |-> S, ok |-> FALSE, cache_ok |-> FALSE, db_ok |-> FALSE]

\* HybridContextStorage.save, as [store, ok, cache_ok, db_ok]: both writes are
\* made, then cache_ok and db_ok.
hybrid_storage_save(S, ctx, t, cache_exc, db_exc) ==
    LET c == redis_storage_save(S, ctx, t, cache_exc)
        d == database_storage_save(c.store, ctx, db_exc)
    IN [store |-> d.store, ok |-> c.ok /\ d.ok, cache_ok |-> c.ok, db_ok |-> d.ok]

\* HybridContextStorage.delete, as [store, ok, cache_ok, db_ok]
hybrid_storage_delete(S, cid, cache_exc, db_exc) ==
    LET c == redis_storage_delete(S, cid, cache_exc)
        d == database_storage_delete(c.store, cid, db_exc)
    IN [store |-> d.store, ok |-> c.ok /\ d.ok, cache_ok |-> c.ok, db_ok |-> d.ok]

\* HybridContextStorage.get with Redis answering, as [store, ctx].
hybrid_get(S, cid, t) ==
    LET got == hybrid_storage_get(S, cid, t, NoExc)
    IN [store |-> got.store, ctx |-> got.ctx]

\* HybridContextStorage.save with both backends answering.
hybrid_save(S, ctx, t) == hybrid_storage_save(S, ctx, t, NoExc, NoExc).store

\* context.messages[-max_messages:] when the list is longer than max_messages
trim_messages(msgs) ==
    IF Len(msgs) > MAX_MESSAGES
    THEN SubSeq(msgs, Len(msgs) - MAX_MESSAGES + 1, Len(msgs)) ELSE msgs

\* ContextManager.add_message, as [store, raised, ok]; `exc` is what
\* context_repo.add_message met.
add_message(S, cid, sender_id, role, t, exc) ==
    LET got == hybrid_get(S, cid, t)
        message == ChatMessage(S, cid, sender_id, role)
        S1 == [got.store EXCEPT !.messages[cid] = Append(@, message)]
        context == [got.ctx EXCEPT !.messages = trim_messages(Append(@, message))]
    IN IF got.ctx.context_id = NoneId
       THEN [store |-> got.store, raised |-> FALSE, ok |-> FALSE]
       ELSE IF exc.raised
            THEN [store |-> got.store, raised |-> TRUE, ok |-> FALSE]
            ELSE [store |-> hybrid_save(S1, context, t), raised |-> FALSE, ok |-> TRUE]

\* UserRepository.get_or_create
user_get_or_create(S, u) ==
    IF S.users[u].exists THEN S
    ELSE [S EXCEPT !.users[u] = [NoUser EXCEPT !.exists = TRUE]]

\* ContextManager.create_context, as [store, raised, ctx]; `exc` is what
\* context_repo.create met.
create_context(S, type, creator_id, expires_in_hours, t, exc) ==
    LET S1 == user_get_or_create(S, creator_id)
        context_id == generate_context_id(S1)
        expires_at == IF expires_in_hours # 0 THEN t + expires_in_hours * HourSeconds
                      ELSE NoneTime
        context == [context_id |-> context_id, type |-> type, creator_id |-> creator_id,
                    participants |-> <<creator_id>>, status |-> "active",
                    expires_at |-> expires_at, messages |-> <<>>]
        S2 == context_repo_create(S1, context)
        created == context_orm_to_model(S2, context_id)
        S3 == hybrid_save(S2, created, t)
        S4 == [S3 EXCEPT !.users[creator_id].current_context_id = context_id]
    IN IF exc.raised
       THEN [store |-> S1, raised |-> TRUE, ctx |-> NoneContext]
       ELSE [store |-> S4, raised |-> FALSE, ctx |-> created]

\* ContextManager.get_user_context, as [store, ctx]
get_user_context(S, u, t) ==
    IF ~S.users[u].exists \/ S.users[u].current_context_id = NoneId
    THEN [store |-> S, ctx |-> NoneContext]
    ELSE hybrid_get(S, S.users[u].current_context_id, t)

\* What the backends meet during one call: the cache write-back of a get, the
\* cache write or delete, the durable write.
NoFaults == [fill |-> FALSE, cache |-> FALSE, db |-> FALSE]

Faults == [fill : BOOLEAN, cache : BOOLEAN, db : BOOLEAN]

SaveFaults == {f \in Faults : ~f.fill}

Raising(b) == [raised |-> b, text |-> "backend unavailable"]

\* ContextManager.get_context, as [store, ctx, db_read]
get_context(S, cid, t, flt) == hybrid_storage_get(S, cid, t, Raising(flt.fill))

\* limit=None of get_messages; None and 0 are the limits Python takes as false.
NoLimit == 0

\* messages[:limit], the first `limit` messages instead of the last.
get_messages_head(S, cid, limit, t) ==
    LET got == get_context(S, cid, t, NoFaults)
        msgs == got.ctx.messages
    IN IF got.ctx.context_id = NoneId THEN [store |-> got.store, out |-> <<>>]
       ELSE IF limit # NoLimit /\ Len(msgs) > limit
            THEN [store |-> got.store, out |-> SubSeq(msgs, 1, limit)]
            ELSE [store |-> got.store, out |-> msgs]

\* ContextManager.get_messages, as [store, out]: messages[-limit:] of the
\* session get_context gave when there is a limit and the list is longer.
get_messages(S, cid, limit, t) ==
    LET got == get_context(S, cid, t, NoFaults)
        msgs == got.ctx.messages
    IN IF got.ctx.context_id = NoneId THEN [store |-> got.store, out |-> <<>>]
       ELSE IF limit # NoLimit /\ Len(msgs) > limit
            THEN [store |-> got.store,
                  out |-> SubSeq(msgs, Len(msgs) - limit + 1, Len(msgs))]
            ELSE [store |-> got.store, out |-> msgs]

\* ContextManager.update_context, as [store, ok, cache_ok, db_ok]
update_context(S, context, t, flt) ==
    hybrid_storage_save(S, context, t, Raising(flt.cache), Raising(flt.db))

\* The loop of delete_context over context.participants: current_context_id of
\* every participant that points at the session becomes None.
clear_current_context(S, participants, cid) ==
    [S EXCEPT !.users = [u \in Users |->
        IF /\ \E i \in 1..Len(participants) : participants[i] = u
           /\ S.users[u].exists
           /\ S.users[u].current_context_id = cid
        THEN [S.users[u] EXCEPT !.current_context_id = NoneId]
        ELSE S.users[u]]]

\* ContextManager.delete_context, as [store, ok]
delete_context(S, cid, t, flt) ==
    LET got == get_context(S, cid, t, flt)
        S1 == IF got.ctx.context_id # NoneId
              THEN clear_current_context(got.store, got.ctx.participants, cid)
              ELSE got.store
        del == hybrid_storage_delete(S1, cid, Raising(flt.cache), Raising(flt.db))
    IN [store |-> del.store, ok |-> del.ok]

IsIn(x, seq) == \E i \in 1..Len(seq) : seq[i] = x

\* list.remove(x): the first occurrence goes.
Remove(seq, x) ==
    LET first == CHOOSE i \in 1..Len(seq) : seq[i] = x /\ \A j \in 1..(i - 1) : seq[j] # x
    IN IF IsIn(x, seq)
       THEN SubSeq(seq, 1, first - 1) \o SubSeq(seq, first + 1, Len(seq))
       ELSE seq

\* ContextManager.add_participant, as [store, ok]
add_participant(S, cid, user_id, t, flt) ==
    LET got == get_context(S, cid, t, flt)
        S1 == user_get_or_create(got.store, user_id)
        context == [got.ctx EXCEPT !.participants = Append(@, user_id)]
        saved == update_context(S1, context, t, flt)
    IN IF got.ctx.context_id = NoneId THEN [store |-> got.store, ok |-> FALSE]
       ELSE IF IsIn(user_id, got.ctx.participants) THEN [store |-> got.store, ok |-> TRUE]
       ELSE [store |-> saved.store, ok |-> saved.ok]

\* ContextManager.remove_participant, as [store, ok]: the creator leaving
\* archives the session.
remove_participant(S, cid, user_id, t, flt) ==
    LET got == get_context(S, cid, t, flt)
        left == [got.ctx EXCEPT !.participants = Remove(@, user_id)]
        context == IF user_id = got.ctx.creator_id
                   THEN [left EXCEPT !.status = "archived"] ELSE left
        S1 == IF got.store.users[user_id].exists
                 /\ got.store.users[user_id].current_context_id = cid
              THEN [got.store EXCEPT !.users[user_id].current_context_id = NoneId]
              ELSE got.store
        saved == update_context(S1, context, t, flt)
    IN IF got.ctx.context_id = NoneId THEN [store |-> got.store, ok |-> FALSE]
       ELSE IF ~IsIn(user_id, got.ctx.participants) THEN [store |-> got.store, ok |-> TRUE]
       ELSE [store |-> saved.store, ok |-> saved.ok]

\* pause_context and resume_context: the status is assigned whatever it was.
set_status(S, cid, status, t, flt) ==
    LET got == get_context(S, cid, t, flt)
        saved == update_context(got.store, [got.ctx EXCEPT !.status = status], t, flt)
    IN IF got.ctx.context_id = NoneId THEN [store |-> got.store, ok |-> FALSE]
       ELSE [store |-> saved.store, ok |-> saved.ok]

\* ContextManager.pause_context, as [store, ok]
pause_context(S, cid, t, flt) == set_status(S, cid, "paused", t, flt)

\* ContextManager.resume_context, as [store, ok]
resume_context(S, cid, t, flt) == set_status(S, cid, "active", t, flt)

\* self.repo.list_all() / self.context_repo.list_all(), as [raised, rows]:
\* ContextRepository defines create, get, update, delete, list_by_user,
\* list_expired and add_message and no list_all, so the attribute lookup raises
\* AttributeError and no row is read.
context_repo_list_all(S) == [raised |-> TRUE, rows |-> {}]

\* The sessions cleanup_expired is to mark: ACTIVE with an expiry before t.
ExpiredAt(S, rows, t) ==
    {c \in rows : /\ S.contexts[c].status = "active"
                  /\ S.contexts[c].expires_at # NoneTime
                  /\ S.contexts[c].expires_at < t}

RECURSIVE expire_all(_, _, _)
expire_all(S, cids, t) ==
    IF cids = {} THEN S
    ELSE LET c == CHOOSE x \in cids : TRUE
             context == [context_orm_to_model(S, c) EXCEPT !.status = "expired"]
         IN expire_all(update_context(S, context, t, NoFaults).store, cids \ {c}, t)

\* ContextManager.cleanup_expired, as [store, raised, count]: list_all is
\* awaited outside any try, so its AttributeError reaches the caller.
cleanup_expired(S, t) ==
    LET all_contexts == context_repo_list_all(S)
        due == ExpiredAt(S, all_contexts.rows, t)
    IN IF all_contexts.raised
       THEN [store |-> S, raised |-> TRUE, count |-> 0]
       ELSE [store |-> expire_all(S, due, t), raised |-> FALSE,
             count |-> Cardinality(due)]

\* DatabaseContextStorage.list_active(user_id), the ids of the sessions
\* returned: whatever list_all raises is caught and answered with [].
db_list_active(S, user_id) ==
    LET contexts_ == context_repo_list_all(S)
        mine == IF user_id # NoneId
                THEN {c \in contexts_.rows : \E i \in 1..Len(S.contexts[c].participants) :
                                             S.contexts[c].participants[i] = user_id}
                ELSE contexts_.rows
    IN IF contexts_.raised THEN {}
       ELSE {c \in mine : S.contexts[c].status = "active"}

\* ContextManager.list_active_contexts(user_id), through
\* HybridContextStorage.list_active, which asks the durable store only.
list_active_contexts(S, user_id) == db_list_active(S, user_id)

\* ---- the store's operations as steps of their own

SetStore(S) ==
    /\ users' = S.users
    /\ contexts' = S.contexts
    /\ messages' = S.messages
    /\ cache' = S.cache

SetStoreInit(S) ==
    /\ users = S.users
    /\ contexts = S.contexts
    /\ messages = S.messages
    /\ cache = S.cache

\* ContextManager.add_message called for an existing session.
AddMessage(cid, sender_id, role) ==
    /\ context_repo_get(Store, cid).context_id # NoneId
    /\ Len(messages[cid]) < MaxAdds
    /\ SetStore(add_message(Store, cid, sender_id, role, now, NoExc).store)
    /\ UNCHANGED <<quotaVars, g, routeVars, mgrVars>>

\* ContextManager.get_context
GetContext(cid) ==
    /\ SetStore(hybrid_get(Store, cid, now).store)
    /\ UNCHANGED <<quotaVars, g, routeVars, mgrVars>>

\* The session stays idle for one time to live of its cache key.
Idle ==
    /\ now + CONTEXT_TTL <= MaxIdleTime
    /\ now' = now + CONTEXT_TTL
    /\ UNCHANGED <<quotas, procs, calls, credited, quotas0, resets, g, storeVars, routeVars, mgrVars>>

\* ---- session-store calls whose outcome the caller sees

NoPrev == [name |-> "none", cid |-> NoneId, ok |-> FALSE, arg |-> NoneContext, t |-> 0]

\* No call made yet.
NoOp ==
    [seq |-> 0, name |-> "none", cid |-> NoneId, ok |-> FALSE, raised |-> FALSE,
     arg |-> NoneContext, out |-> NoneContext, db_read |-> FALSE, flt |-> NoFaults,
     limit |-> NoLimit, t |-> 0, prev |-> NoPrev, count |-> 0, user |-> NoneId,
     listed |-> {}]

\* The call `name` on session cid made now, after the call op describes.
NextOp(name, cid, flt) ==
    [NoOp EXCEPT !.seq = op.seq + 1, !.name = name, !.cid = cid, !.flt = flt, !.t = now,
                 !.prev = [name |-> op.name, cid |-> op.cid, ok |-> op.ok,
                           arg |-> op.arg, t |-> op.t]]

\* The sessions handed to save: the cached copy of a session with none, one or
\* two messages, as update_context receives it.
Msg(n, sender_id) == [message_id |-> n, sender_id |-> sender_id, role |-> "user"]

SavedSessions ==
    {[context_id |-> c, type |-> "private", creator_id |-> "u1",
      participants |-> <<"u1">>, status |-> "active", expires_at |-> NoneTime,
      messages |-> m] :
        c \in {CtxIds[1], CtxIds[2]},
        m \in {<<>>, <<Msg(2, "u2"), Msg(1, "u1")>>}}

OpCtxIds == {CtxIds[1], CtxIds[2]}

\* HybridContextStorage.save(context), through update_context.
StorageSave(context, flt) ==
    LET r == update_context(Store, context, now, flt)
    IN /\ op.seq < MaxStorageOps
       /\ SetStore(r.store)
       /\ op' = [NextOp("save", context.context_id, flt) EXCEPT !.ok = r.ok, !.arg = context]
       /\ UNCHANGED <<quotaVars, g, routeVars, user_requests, user_messages,
                      user_content, tasks, adds, banop, recVars>>

\* HybridContextStorage.get(context_id), through get_context.
StorageGet(cid, flt) ==
    LET r == get_context(Store, cid, now, flt)
    IN /\ op.seq < MaxStorageOps
       /\ SetStore(r.store)
       /\ op' = [NextOp("get", cid, flt) EXCEPT !.ok = r.ctx.context_id # NoneId,
                                               !.out = r.ctx, !.db_read = r.db_read]
       /\ UNCHANGED <<quotaVars, g, routeVars, user_requests, user_messages,
                      user_content, tasks, adds, banop, recVars>>

\* ContextManager.delete_context(context_id)
StorageDelete(cid, flt) ==
    LET r == delete_context(Store, cid, now, flt)
    IN /\ op.seq < MaxStorageOps
       /\ SetStore(r.store)
       /\ op' = [NextOp("delete", cid, flt) EXCEPT !.ok = r.ok]
       /\ UNCHANGED <<quotaVars, g, routeVars, user_requests, user_messages,
                      user_content, tasks, adds, banop, recVars>>

\* One call of the session manager with every backend answering.
SessionCall(name, cid, r) ==
    /\ op.seq < MaxSessionOps
    /\ SetStore(r.store)
    /\ op' = [NextOp(name, cid, NoFaults) EXCEPT !.ok = r.ok]
    /\ UNCHANGED <<quotaVars, g, routeVars, user_requests, user_messages,
                      user_content, tasks, adds, banop, recVars>>

PauseContext(cid) == SessionCall("pause", cid, pause_context(Store, cid, now, NoFaults))

ResumeContext(cid) == SessionCall("resume", cid, resume_context(Store, cid, now, NoFaults))

AddParticipant(cid, u) ==
    SessionCall("add_participant", cid, add_participant(Store, cid, u, now, NoFaults))

RemoveParticipant(cid, u) ==
    SessionCall("remove_participant", cid, remove_participant(Store, cid, u, now, NoFaults))

DeleteContext(cid) == SessionCall("delete", cid, delete_context(Store, cid, now, NoFaults))

\* add_message with what context_repo.add_message met: its exception is
\* caught nowhere in ContextManager.
SessionAddMessage(cid, u, exc) ==
    LET r == add_message(Store, cid, u, "user", now, exc)
    IN /\ op.seq < MaxSessionOps
       /\ SetStore(r.store)
       /\ op' = [NextOp("add_message", cid, NoFaults) EXCEPT !.ok = r.ok,
                                                             !.raised = r.raised]
       /\ UNCHANGED <<quotaVars, g, routeVars, user_requests, user_messages,
                      user_content, tasks, adds, banop, recVars>>

SessionGet(cid) ==
    LET r == get_context(Store, cid, now, NoFaults)
    IN SessionCall("get", cid, [store |-> r.store, ok |-> r.ctx.context_id # NoneId])

\* await get_messages(cid, limit); out.messages is the list returned.
GetMessages(cid, limit) ==
    LET r == get_messages(Store, cid, limit, now)
    IN /\ op.seq < MaxSessionOps
       /\ SetStore(r.store)
       /\ op' = [NextOp("get_messages", cid, NoFaults) EXCEPT
                    !.ok = TRUE, !.limit = limit,
                    !.out = [NoneContext EXCEPT !.context_id = cid, !.messages = r.out]]
       /\ UNCHANGED <<quotaVars, g, routeVars, user_requests, user_messages,
                      user_content, tasks, adds, banop, recVars>>

\* ---- add_message as the event loop runs it: a coroutine gives way at each
\* await, so the calls of two coroutines interleave between the steps below.

AddIds == {1, 2}

IdleAdd ==
    [pc |-> "idle", cid |-> NoneId, context |-> NoneContext,
     message |-> Msg(0, NoneId), ok |-> FALSE]

\* context = await self.get_context(context_id); the ChatMessage is built with
\* a fresh message_id, for which the number of the coroutine stands.
AddGet(k, cid, sender_id) ==
    LET r == get_context(Store, cid, now, NoFaults)
    IN /\ adds[k].pc = "idle"
       /\ SetStore(r.store)
       /\ adds' = [adds EXCEPT ![k] =
              IF r.ctx.context_id = NoneId
              THEN [IdleAdd EXCEPT !.pc = "done", !.cid = cid]
              ELSE [IdleAdd EXCEPT !.pc = "insert", !.cid = cid, !.context = r.ctx,
                                   !.message = Msg(k, sender_id)]]
       /\ UNCHANGED <<quotaVars, g, routeVars, op, user_requests, user_messages,
                      user_content, tasks, banop, recVars>>

\* await self.context_repo.add_message(context_id, message)
AddInsert(k) ==
    /\ adds[k].pc = "insert"
    /\ messages' = [messages EXCEPT ![adds[k].cid] = Append(@, adds[k].message)]
    /\ adds' = [adds EXCEPT ![k].pc = "save"]
    /\ UNCHANGED <<quotaVars, g, users, contexts, cache, routeVars, op, user_requests,
                   user_messages, user_content, tasks, banop, recVars>>

\* context.messages.append(message), the trim, and
\* return await self.update_context(context)
AddSave(k) ==
    LET context == [adds[k].context EXCEPT
                       !.messages = trim_messages(Append(@, adds[k].message))]
        r == update_context(Store, context, now, NoFaults)
    IN /\ adds[k].pc = "save"
       /\ SetStore(r.store)
       /\ adds' = [adds EXCEPT ![k].pc = "done", ![k].ok = r.ok]
       /\ op' = [NextOp("add_message", adds[k].cid, NoFaults) EXCEPT !.ok = r.ok]
       /\ UNCHANGED <<quotaVars, g, routeVars, user_requests, user_messages,
                      user_content, tasks, banop, recVars>>

\* cleanup_expired raises: the caller gets an AttributeError and no count.
CleanupExpired ==
    LET r == cleanup_expired(Store, now)
    IN /\ op.seq < MaxSessionOps
       /\ SetStore(r.store)
       /\ op' = [NextOp("cleanup_expired", NoneId, NoFaults) EXCEPT !.raised = r.raised,
                                                                    !.count = r.count]
       /\ UNCHANGED <<quotaVars, g, routeVars, user_requests, user_messages,
                      user_content, tasks, adds, banop, recVars>>

\* await list_active_contexts(user_id); listed holds the sessions returned.
ListActiveContexts(user_id) ==
    /\ op.seq < MaxSessionOps
    /\ op' = [NextOp("list_active", NoneId, NoFaults) EXCEPT
                 !.ok = TRUE, !.user = user_id,
                 !.listed = list_active_contexts(Store, user_id)]
    /\ UNCHANGED <<quotaVars, g, storeVars, routeVars, user_requests, user_messages,
                   user_content, tasks, adds, banop, recVars>>

\* await create_context(PRIVATE, u, expires_in_hours = hours)
CreateContext(u, hours) ==
    LET r == create_context(Store, "private", u, hours, now, NoExc)
    IN /\ op.seq < MaxSessionOps
       /\ ContextCount(Store) < Len(CtxIds)
       /\ SetStore(r.store)
       /\ op' = [NextOp("create", r.ctx.context_id, NoFaults) EXCEPT !.ok = TRUE,
                                                                    !.out = r.ctx]
       /\ UNCHANGED <<quotaVars, g, routeVars, user_requests, user_messages,
                      user_content, tasks, adds, banop, recVars>>

\* ===================================================================
\* The ban lookup (managers/ban.py, storage/database.py)
\* ===================================================================

NoBan == [found |-> FALSE, ban_type |-> "temporary", started_at |-> 0, expires_at |-> NoneTime]

\* A record whose duration is taken for minutes.
ban_record_minutes(ban_type, duration_hours, t) ==
    [found |-> TRUE, ban_type |-> ban_type, started_at |-> t,
     expires_at |-> IF ban_type = "temporary" THEN t + duration_hours * MinuteWindow
                    ELSE NoneTime]

\* BanManager.ban_user: the record it creates at time t.
ban_record(ban_type, duration_hours, t) ==
    [found |-> TRUE, ban_type |-> ban_type, started_at |-> t,
     expires_at |-> IF ban_type = "temporary" THEN t + duration_hours * HourSeconds
                    ELSE NoneTime]

\* BanRecordRepository.get_active_ban: the newest row that is PERMANENT or
\* expires after t.
get_active_ban(rows, t) ==
    LET Matches(r) == r.ban_type = "permanent" \/ (r.expires_at # NoneTime /\ r.expires_at > t)
        hits == SelectSeq(rows, Matches)
    IN IF hits = <<>> THEN NoBan ELSE hits[Len(hits)]

\* BanRecord.is_active
is_active(record, t) ==
    IF record.ban_type = "permanent" THEN TRUE
    ELSE IF record.expires_at = NoneTime THEN FALSE
    ELSE t < record.expires_at

\* BanRecord.remaining_seconds; NoneTime stands for None.
remaining_seconds(record, t) ==
    IF record.ban_type = "permanent" THEN NoneTime
    ELSE IF record.expires_at = NoneTime THEN 0
    ELSE Max(0, record.expires_at - t)

\* BanManager.check_ban_status
check_ban_status(rows, t) ==
    LET record == get_active_ban(rows, t)
    IN IF record.found /\ is_active(record, t) THEN record ELSE NoBan

\* BanManager.is_banned
is_banned(rows, t) == check_ban_status(rows, t).found

\* BanManager.get_remaining_ban_time: the remaining seconds of the record
\* check_ban_status finds at time t, None (NoneTime) if it finds none.
get_remaining_ban_time(rows, t) ==
    LET record == check_ban_status(rows, t)
    IN IF record.found THEN remaining_seconds(record, t) ELSE NoneTime

\* get_active_ban's row of the table: the newest one that matches, 0 if none.
active_ban_index(rows, t) ==
    LET Matches(i) == rows[i].ban_type = "permanent"
                      \/ (rows[i].expires_at # NoneTime /\ rows[i].expires_at > t)
        hits == {i \in 1..Len(rows) : Matches(i)}
    IN IF hits = {} THEN 0 ELSE CHOOSE i \in hits : \A j \in hits : j <= i

\* ===================================================================
\* BanManager (managers/ban.py): bans, unbans and abuse detection
\* ===================================================================

\* DEFAULT_DETECTION_RULES
RAPID_REQUEST_THRESHOLD == 10
RAPID_REQUEST_WINDOW == 60
TOKEN_BURST_THRESHOLD == 1000
SPAM_MESSAGE_THRESHOLD == 5
SPAM_WINDOW == 10
REPEAT_THRESHOLD == 3
REPEAT_WINDOW == 30

\* BanManager._clear_user_tracking on one of the three tracking dicts: a user
\* without a key is tracked from an empty list again.
clear_user_tracking(tracking, u) == [tracking EXCEPT ![u] = <<>>]

\* ban_user clearing the request and message tracking of the user only.
ban_user_keeps_content(rows, urows, requests, msgs, entries, u, ban_type, duration_hours, t) ==
    [rows |-> Append(rows, ban_record(ban_type, duration_hours, t)),
     users |-> IF urows[u].exists THEN [urows EXCEPT ![u].is_banned = TRUE] ELSE urows,
     requests |-> clear_user_tracking(requests, u),
     messages |-> clear_user_tracking(msgs, u),
     content |-> entries]

\* BanManager.ban_user at time t, as [rows, users, requests, messages, content]:
\* a record is inserted, the user's flag set if there is such a user, the
\* tracking of the user dropped.
ban_user(rows, urows, requests, msgs, entries, u, ban_type, duration_hours, t) ==
    [rows |-> Append(rows, ban_record(ban_type, duration_hours, t)),
     users |-> IF urows[u].exists THEN [urows EXCEPT ![u].is_banned = TRUE] ELSE urows,
     requests |-> clear_user_tracking(requests, u),
     messages |-> clear_user_tracking(msgs, u),
     content |-> clear_user_tracking(entries, u)]

\* BanManager.unban_user at time t, as [rows, users, ok]: expires_at of the
\* record get_active_ban returns becomes now; ban_type stays.
unban_user(rows, urows, u, t) ==
    LET i == active_ban_index(rows, t)
    IN IF i = 0 THEN [rows |-> rows, users |-> urows, ok |-> FALSE]
       ELSE [rows |-> [rows EXCEPT ![i].expires_at = t],
             users |-> IF urows[u].exists THEN [urows EXCEPT ![u].is_banned = FALSE]
                       ELSE urows,
             ok |-> TRUE]

\* The pruning of _detect_rapid_requests without its window test.
prune_requests_never(log, t) == log

\* _detect_rapid_requests: the timestamps of the log inside the window.
prune_requests(log, t) ==
    LET Inside(ts) == t - ts < RAPID_REQUEST_WINDOW
    IN SelectSeq(log, Inside)

\* _detect_rapid_requests without the append of the current request.
detect_rapid_requests_no_append(log, t) ==
    LET kept == prune_requests(log, t)
    IN [log |-> kept, abuse |-> Len(kept) + 1 > RAPID_REQUEST_THRESHOLD]

\* BanManager._detect_rapid_requests, as [log, abuse]
detect_rapid_requests(log, t) ==
    LET kept == Append(prune_requests(log, t), t)
    IN [log |-> kept, abuse |-> Len(kept) > RAPID_REQUEST_THRESHOLD]

\* BanManager._detect_token_abuse
detect_token_abuse(tokens_used) == tokens_used > TOKEN_BURST_THRESHOLD

\* BanManager._detect_spam, as [log, abuse]
detect_spam(msgs, t) ==
    LET Inside(ts) == t - ts < SPAM_WINDOW
        kept == Append(SelectSeq(msgs, Inside), t)
    IN [log |-> kept, abuse |-> Len(kept) > SPAM_MESSAGE_THRESHOLD]

\* _detect_repeated_content counting the entries after the current one is appended.
detect_repeated_content_counts_current(entries, content, t) ==
    IF content = "" THEN [log |-> entries, abuse |-> FALSE]
    ELSE LET Inside(e) == t - e.ts < REPEAT_WINDOW
             kept == Append(SelectSeq(entries, Inside), [ts |-> t, content |-> content])
             content_count == Cardinality({i \in 1..Len(kept) : kept[i].content = content})
         IN [log |-> kept, abuse |-> content_count >= REPEAT_THRESHOLD]

\* BanManager._detect_repeated_content, as [log, abuse]
detect_repeated_content(entries, content, t) ==
    IF content = "" THEN [log |-> entries, abuse |-> FALSE]
    ELSE LET Inside(e) == t - e.ts < REPEAT_WINDOW
             kept == SelectSeq(entries, Inside)
             content_count == Cardinality({i \in 1..Len(kept) : kept[i].content = content})
         IN [log |-> Append(kept, [ts |-> t, content |-> content]),
             abuse |-> content_count >= REPEAT_THRESHOLD]

\* What detect_abuse gives and leaves: the three tracking lists of the user,
\* the verdict and its reason.
Verdict(requests, msgs, entries, abuse, reason) ==
    [requests |-> requests, messages |-> msgs, content |-> entries,
     abuse |-> abuse, reason |-> reason]

\* detect_abuse testing the token burst before the rapid requests.
detect_abuse_burst_first(requests, msgs, entries, message_content, tokens_used, t) ==
    LET rapid == detect_rapid_requests(requests, t)
        spam == detect_spam(msgs, t)
        repeated == detect_repeated_content(entries, message_content, t)
    IN IF tokens_used > 0 /\ detect_token_abuse(tokens_used)
       THEN Verdict(requests, msgs, entries, TRUE, "token_burst")
       ELSE IF rapid.abuse
       THEN Verdict(rapid.log, msgs, entries, TRUE, "too_frequent")
       ELSE IF message_content = ""
       THEN Verdict(rapid.log, msgs, entries, FALSE, "none")
       ELSE IF spam.abuse
       THEN Verdict(rapid.log, spam.log, entries, TRUE, "spam")
       ELSE IF repeated.abuse
       THEN Verdict(rapid.log, spam.log, repeated.log, TRUE, "repeated_content")
       ELSE Verdict(rapid.log, spam.log, repeated.log, FALSE, "none")

\* BanManager.detect_abuse at time t: a heuristic that reports abuse ends the
\* call, and the heuristics after it neither test nor record anything.
detect_abuse(requests, msgs, entries, message_content, tokens_used, t) ==
    LET rapid == detect_rapid_requests(requests, t)
        spam == detect_spam(msgs, t)
        repeated == detect_repeated_content(entries, message_content, t)
    IN IF rapid.abuse
       THEN Verdict(rapid.log, msgs, entries, TRUE, "too_frequent")
       ELSE IF tokens_used > 0 /\ detect_token_abuse(tokens_used)
       THEN Verdict(rapid.log, msgs, entries, TRUE, "token_burst")
       ELSE IF message_content = ""
       THEN Verdict(rapid.log, msgs, entries, FALSE, "none")
       ELSE IF spam.abuse
       THEN Verdict(rapid.log, spam.log, entries, TRUE, "spam")
       ELSE IF repeated.abuse
       THEN Verdict(rapid.log, spam.log, repeated.log, TRUE, "repeated_content")
       ELSE Verdict(rapid.log, spam.log, repeated.log, FALSE, "none")

\* BanManager.cleanup_tracking(before): every user's timestamps up to `before` go.
cleanup_tracking(requests, before) ==
    [u \in Users |-> LET After(ts) == ts > before IN SelectSeq(requests[u], After)]

\* ---- BanManager calls as steps, with what each gave its caller

\* The three tracking dicts as a call finds them.
Tracking ==
    [requests |-> user_requests, messages |-> user_messages, content |-> user_content]

\* The part of the tracking dicts a detect_abuse call of user u reads.
TrackingOf(u) ==
    [requests |-> [v \in Users |-> IF v = u THEN user_requests[v] ELSE <<>>],
     messages |-> [v \in Users |-> IF v = u THEN user_messages[v] ELSE <<>>],
     content |-> [v \in Users |-> IF v = u THEN user_content[v] ELSE <<>>]]

\* No call made yet. content, tokens and pre are the arguments of the last
\* detect_abuse call and the tracking it found. placed, unbanned, made and
\* since keep the history of the calls: the bans placed on each user, the
\* users unbanned, the times of each user's detect_abuse calls and how many of
\* them had been made when the user's tracking was last emptied; said keeps,
\* for each of the calls that carried a message, its time, the message and
\* whether the call got as far as recording it in the content window, cleared
\* how many of these had been made when ban_user last dropped the user's
\* tracking.
NoBanOp ==
    [seq |-> 0, name |-> "none", user |-> "u1", ok |-> FALSE, raised |-> FALSE,
     reason |-> "none", t |-> 0, before |-> <<>>, content |-> "", tokens |-> 0,
     pre |-> [requests |-> [u \in Users |-> <<>>], messages |-> [u \in Users |-> <<>>],
              content |-> [u \in Users |-> <<>>]],
     placed |-> [u \in Users |-> <<>>],
     unbanned |-> {},
     made |-> [u \in Users |-> <<>>],
     said |-> [u \in Users |-> <<>>],
     cleared |-> [u \in Users |-> 0],
     since |-> [u \in Users |-> 0]]

\* await is_banned(u) with what ban_repo.get_active_ban met: its exception is
\* caught nowhere in BanManager.
IsBanned(u, exc) ==
    /\ banop' = [banop EXCEPT !.name = "is_banned", !.user = u,
                              !.ok = ~exc.raised /\ is_banned(bans[u], now),
                              !.raised = exc.raised, !.reason = "none", !.t = now,
                              !.before = bans[u]]
    /\ UNCHANGED <<quotaVars, g, storeVars, routeVars, op, user_requests, user_messages,
                   user_content, tasks, adds, recVars>>

BanTypes == {"temporary", "permanent"}
BanHours == {1, 2}

BanUser(u, ban_type, duration_hours) ==
    LET r == ban_user(bans[u], users, user_requests, user_messages, user_content,
                      u, ban_type, duration_hours, now)
    IN /\ banop.seq < MaxBanOps
       /\ bans' = [bans EXCEPT ![u] = r.rows]
       /\ users' = r.users
       /\ user_requests' = r.requests
       /\ user_messages' = r.messages
       /\ user_content' = r.content
       /\ banop' = [banop EXCEPT !.seq = @ + 1, !.name = "ban", !.user = u, !.ok = TRUE,
                                 !.reason = "none", !.t = now, !.before = bans[u],
                                 !.pre = Tracking,
                                 !.placed[u] = Append(@, [t |-> now, ban_type |-> ban_type,
                                                          duration_hours |-> duration_hours]),
                                 !.since[u] = Len(banop.made[u]),
                                 !.cleared[u] = Len(banop.said[u])]
       /\ UNCHANGED <<quotaVars, g, contexts, messages, cache, rt, res, op, tasks, adds, recVars>>

UnbanUser(u) ==
    LET r == unban_user(bans[u], users, u, now)
    IN /\ banop.seq < MaxBanOps
       /\ bans' = [bans EXCEPT ![u] = r.rows]
       /\ users' = r.users
       /\ banop' = [banop EXCEPT !.seq = @ + 1, !.name = "unban", !.user = u, !.ok = r.ok,
                                 !.reason = "none", !.t = now, !.before = bans[u],
                                 !.unbanned = IF r.ok THEN @ \cup {u} ELSE @]
       /\ UNCHANGED <<quotaVars, g, contexts, messages, cache, rt, res, op, user_requests,
                      user_messages, user_content, tasks, adds, recVars>>

TotalDetects == Len(banop.made["u1"]) + Len(banop.made["u2"])

\* The body of detect_abuse run for user u at the time now: nothing in it
\* suspends, so the event loop runs it in one piece.
DetectBody(u, message_content, tokens_used) ==
    LET r == detect_abuse(user_requests[u], user_messages[u], user_content[u],
                          message_content, tokens_used, now)
    IN /\ user_requests' = [user_requests EXCEPT ![u] = r.requests]
       /\ user_messages' = [user_messages EXCEPT ![u] = r.messages]
       /\ user_content' = [user_content EXCEPT ![u] = r.content]
       /\ banop' = [banop EXCEPT !.name = "detect_abuse", !.user = u, !.ok = r.abuse,
                                 !.reason = r.reason, !.t = now, !.before = <<>>,
                                 !.content = message_content, !.tokens = tokens_used,
                                 !.pre = TrackingOf(u),
                                 !.made[u] = Append(@, now),
                                 !.said[u] =
                                     IF message_content = "" THEN @
                                     ELSE Append(@, [t |-> now, content |-> message_content,
                                                     recorded |-> r.reason \in {"none", "repeated_content"}])]

\* await detect_abuse(u, message_content, tokens_used)
DetectAbuse(u, message_content, tokens_used) ==
    /\ TotalDetects < MaxDetects
    /\ DetectBody(u, message_content, tokens_used)
    /\ UNCHANGED <<quotaVars, g, storeVars, routeVars, op, tasks, adds, recVars>>

\* ---- detect_abuse calls run concurrently (asyncio.gather, create_task)

TaskIds == {"k1", "k2", "k3"}

IdleTask ==
    [state |-> "idle", user |-> "u1", content |-> "", tokens |-> 0, t |-> 0,
     overlap |-> FALSE]

\* A detect_abuse coroutine is handed to the event loop and waits for its turn.
\* overlap tells that another call for the same user was waiting with it.
DetectSpawn(k, u, message_content, tokens_used) ==
    /\ tasks[k].state = "idle"
    /\ LET Waiting(j) == j # k /\ tasks[j].state = "pending" /\ tasks[j].user = u
       IN tasks' = [j \in TaskIds |->
                      IF j = k
                      THEN [state |-> "pending", user |-> u, content |-> message_content,
                            tokens |-> tokens_used, t |-> 0,
                            overlap |-> \E i \in TaskIds : Waiting(i)]
                      ELSE IF Waiting(j) THEN [tasks[j] EXCEPT !.overlap = TRUE]
                      ELSE tasks[j]]
    /\ UNCHANGED <<quotaVars, g, storeVars, routeVars, op, user_requests, user_messages,
                   user_content, adds, banop, recVars>>

\* The event loop runs a waiting detect_abuse coroutine: it reads the clock
\* and runs to its return.
DetectRun(k) ==
    /\ tasks[k].state = "pending"
    /\ DetectBody(tasks[k].user, tasks[k].content, tasks[k].tokens)
    /\ tasks' = [tasks EXCEPT ![k].state = "done", ![k].t = now]
    /\ UNCHANGED <<quotaVars, g, storeVars, routeVars, op, adds, recVars>>

\* cleanup_tracking(datetime.now()): nothing tracked so far is kept.
CleanupTracking ==
    /\ user_requests' = cleanup_tracking(user_requests, now)
    /\ banop' = [banop EXCEPT !.name = "cleanup_tracking", !.ok = TRUE, !.reason = "none",
                              !.t = now, !.before = <<>>, !.pre = NoBanOp.pre,
                              !.since = [u \in Users |-> Len(banop.made[u])]]
    /\ UNCHANGED <<quotaVars, g, storeVars, routeVars, op, user_messages, user_content,
                   tasks, adds, recVars>>

\* The clock reaches one of the instants around the expiry of a ban.
BanClock == {1, 3600, 3601, 7200}

AdvanceTo(t) ==
    /\ t > now
    /\ t <= MaxBanTime
    /\ now' = t
    /\ UNCHANGED <<quotas, procs, calls, credited, quotas0, resets, g, storeVars,
                   routeVars, mgrVars>>

\* ===================================================================
\* The message router (core/router.py)
\* ===================================================================

\* The texts _pre_check and check_quota give as reason, and route_message's apology.
REASON_BAN_PERMANENT == "banned permanently"
REASON_BAN_MINUTES == "banned, minutes left"
REASON_BAN == "banned"
REASON_QUOTA == "quota short"
REASON_DAILY_QUOTA == "daily quota short"
REASON_FREQUENT == "too frequent, try later"
REASON_RATE == "too frequent, try later."
REASON_DAILY == "daily quota used up"
MSG_ROUTER_ERROR == "sorry: message processing error"

\* The step of a route_message call that raises, if one does.
PreFails == {"is_banned", "get_remaining_ban_time", "check_quota",
             "check_minute_limit", "check_daily_limit"}
CallFails == PreFails \cup {"none", "create_context", "add_message", "compile"}
FinishFails == {"none", "add_message"}

\* A get_quota that logs the access as a request of the minute window.
get_quota_recording(row, t) ==
    LET got == IF ~row.exists THEN create_default_quota(t)
               ELSE IF t >= row.daily_reset
                    THEN reset_daily_local(quota_orm_to_model(row, t), t)
                    ELSE row
    IN [got EXCEPT !.minute_requests = Append(@, t)]

\* TokenController.get_quota at time t: the row the table holds afterwards.
get_quota(row, t) ==
    IF ~row.exists THEN create_default_quota(t)
    ELSE IF t >= row.daily_reset THEN reset_daily_local(quota_orm_to_model(row, t), t)
    ELSE row

\* await get_quota(u) with no other call under way: the frame keeps the row
\* found (pre), the TokenQuota returned (q) and the time of the call.
GetQuota(p, u) ==
    /\ procs[p].pc = "idle"
    /\ calls < MaxCalls
    /\ calls' = calls + 1
    /\ quotas' = [quotas EXCEPT ![u] = get_quota(quotas[u], now)]
    /\ procs' = [procs EXCEPT ![p] =
           [IdleFrame EXCEPT !.pc = "done", !.user = u, !.pre = quotas[u],
                             !.q = quota_orm_to_model(get_quota(quotas[u], now), now),
                             !.t0 = now, !.ret = "quota"]]
    /\ UNCHANGED <<now, credited, quotas0, resets, g, storeVars, routeVars, mgrVars>>

check_quota_reason(verdict) ==
    IF verdict = "quota" THEN REASON_QUOTA
    ELSE IF verdict = "daily" THEN REASON_DAILY_QUOTA
    ELSE REASON_FREQUENT

Allowed(row) ==
    [allowed |-> TRUE, reason |-> "", error_code |-> "none", row |-> row, raised |-> FALSE]

Denied(code, reason, row) ==
    [allowed |-> FALSE, reason |-> reason, error_code |-> code, row |-> row, raised |-> FALSE]

\* The result as it stands when a step raises: `except Exception` of _pre_check
\* logs the exception and the result built so far is returned.
Swallowed(result) == [result EXCEPT !.raised = TRUE]

\* MessageRouter._pre_check for a user with ban rows `rows` and quota row `row`,
\* as [allowed, reason, error_code, row, raised]: row is the quota row the table
\* holds afterwards, raised tells that step `fail` was reached and raised.
\* is_banned reads the clock at t0, the lookups awaited after it at t.
pre_check_at(rows, row, t0, t, fail) ==
    LET banned == is_banned(rows, t0)
        remain == get_remaining_ban_time(rows, t)
        row1 == get_quota(row, t)
        verdict == check_quota_on(quota_orm_to_model(row1, t), 0, t)
        row2 == get_quota(row1, t)
        row3 == get_quota(row2, t)
    IN IF fail = "is_banned" THEN Swallowed(Allowed(row))
       ELSE IF banned
       THEN IF fail = "get_remaining_ban_time" THEN Swallowed(Denied("USER_BANNED", "", row))
            ELSE IF remain = NoneTime THEN Denied("USER_BANNED", REASON_BAN_PERMANENT, row)
            ELSE IF remain > 0 THEN Denied("USER_BANNED", REASON_BAN_MINUTES, row)
            ELSE Denied("USER_BANNED", REASON_BAN, row)
       ELSE IF fail = "check_quota" THEN Swallowed(Allowed(row))
       ELSE IF verdict # "ok"
       THEN Denied("QUOTA_EXCEEDED", check_quota_reason(verdict), row1)
       ELSE IF fail = "check_minute_limit" THEN Swallowed(Allowed(row1))
       ELSE IF is_minute_limit_exceeded(quota_orm_to_model(row2, t), t)
       THEN Denied("RATE_LIMIT_EXCEEDED", REASON_RATE, row2)
       ELSE IF fail = "check_daily_limit" THEN Swallowed(Allowed(row2))
       ELSE IF ~(daily_remaining(quota_orm_to_model(row3, t)) > 0)
       THEN Denied("DAILY_LIMIT_EXCEEDED", REASON_DAILY, row3)
       ELSE Allowed(row3)

\* _pre_check with no time passing between its lookups.
pre_check(rows, row, t, fail) == pre_check_at(rows, row, t, t, fail)

\* `if not check_result["allowed"]` never taking its branch.
denied_never(check) == FALSE

\* route_message: `if not check_result["allowed"]`
denied(check) == ~check.allowed

\* MessageRouter._get_or_create_context, as [store, ctx]: an exception of any
\* step is logged and None returned. A group session is looked up under the id
\* "group_<group_id>", which generate_context_id never hands out.
get_or_create_context(S, u, group_id, t, fail) ==
    LET exc == [raised |-> fail = "create_context", text |-> "create failed"]
        type == IF group_id = NoneId THEN "private" ELSE "group"
        found == IF group_id = NoneId THEN get_user_context(S, u, t)
                 ELSE [store |-> S, ctx |-> context_repo_get(S, "group_" \o group_id)]
        made == create_context(found.store, type, u, 0, t, exc)
    IN IF found.ctx.context_id = NoneId \/ found.ctx.status # "active"
       THEN [store |-> made.store, ctx |-> made.ctx]
       ELSE found

\* MessageProcessingResult (success, response, error) and, for the record, what
\* the call did: its pre-check, the step whose exception reached the boundary,
\* the state process returned, the session it attached (context_id), the
\* session the previous message of the same user (private) or to the same
\* group had attached (earlier) and whether that one was still ACTIVE.
\* attached keeps, per user and per group, the session of the last message.
NoResult ==
    [kind |-> "none", user |-> "u1", success |-> FALSE, response |-> "", error |-> "none",
     allowed |-> TRUE, reason |-> "", check_code |-> "none", pre_raised |-> FALSE,
     boundary |-> "none", final_code |-> "none",
     group_id |-> NoneId, context_id |-> NoneId, earlier |-> NoneId,
     earlier_active |-> FALSE,
     attached |-> [k \in Users \cup GroupIds |-> NoneId]]

\* The call of user u under way, its pre-check done.
running_call(u, check) ==
    [NoResult EXCEPT !.kind = "running", !.user = u, !.allowed = check.allowed,
                     !.reason = check.reason, !.check_code = check.error_code,
                     !.pre_raised = check.raised]

\* The return of the fast rejection path.
denial_result(call, check) ==
    [call EXCEPT !.kind = "return", !.success = FALSE,
                 !.response = check.reason, !.error = check.error_code]

\* An exception of step `step` let through to the caller.
route_boundary_reraise(call, step) ==
    [call EXCEPT !.kind = "raise", !.boundary = step]

\* `except Exception as e` of route_message: the exception of step `step`
\* becomes a failed result with the fixed apology; error is str(e).
route_boundary(call, step) ==
    [call EXCEPT !.kind = "return", !.success = FALSE, !.response = MSG_ROUTER_ERROR,
                 !.error = "str(e)", !.boundary = step]

\* The return at the end of the try block: success=True whatever final_state holds.
success_result(call, final_state) ==
    [call EXCEPT !.kind = "return", !.success = TRUE,
                 !.response = final_state.response,
                 !.final_code = final_state.error_code]

IdleRoute == [pc |-> "idle", user |-> "u1", context_id |-> NoneId]

\* route_message is called and runs up to langgraph_manager.process: pre-check,
\* initial state, session, the user's message.
RouteCall(u, group_id, fail) ==
    LET check == pre_check(bans[u], quotas[u], now, fail)
        got == get_or_create_context(Store, u, group_id, now, fail)
        key == IF group_id = NoneId THEN u ELSE group_id
        earlier == res.attached[key]
        call == [running_call(u, check) EXCEPT
                    !.group_id = group_id,
                    !.context_id = IF denied(check) THEN NoneId ELSE got.ctx.context_id,
                    !.earlier = earlier,
                    !.earlier_active =
                        /\ earlier # NoneId
                        /\ hybrid_get(Store, earlier, now).ctx.status = "active",
                    !.attached = IF denied(check) \/ got.ctx.context_id = NoneId
                                 THEN res.attached
                                 ELSE [res.attached EXCEPT ![key] = got.ctx.context_id]]
        exc == [raised |-> fail = "add_message", text |-> "insert failed"]
        added == IF got.ctx.context_id = NoneId
                 THEN [store |-> got.store, raised |-> FALSE, ok |-> FALSE]
                 ELSE add_message(got.store, got.ctx.context_id, u, "user", now, exc)
        state == create_initial_state(u, got.ctx.context_id)
    IN /\ rt.pc = "idle"
       /\ calls < MaxRoutes
       /\ ContextCount(Store) < Len(CtxIds)
       /\ calls' = calls + 1
       /\ quotas' = [quotas EXCEPT ![u] = check.row]
       /\ IF denied(check)
          THEN /\ res' = denial_result(call, check)
               /\ UNCHANGED <<storeVars, rt, g, recVars>>
          ELSE /\ SetStore(added.store)
               /\ IF added.raised \/ fail = "compile"
                  THEN /\ res' = route_boundary(call, IF added.raised THEN "add_message"
                                                      ELSE "compile")
                       /\ UNCHANGED <<rt, g, recVars>>
                  ELSE /\ rt' = [pc |-> "graph", user |-> u,
                                 context_id |-> got.ctx.context_id]
                       /\ g' = StartRun(state)
                       /\ res' = call
       /\ UNCHANGED <<now, procs, credited, quotas0, resets, bans, mgrVars>>

\* process returned: the response is saved to the session and the result returned.
RouteFinish(fail) ==
    LET final_state == g.st
        response == final_state.response
        exc == [raised |-> fail = "add_message", text |-> "insert failed"]
        added == IF rt.context_id # NoneId /\ response # ""
                 THEN add_message(Store, rt.context_id, "robot", "user", now, exc)
                 ELSE [store |-> Store, raised |-> FALSE, ok |-> FALSE]
    IN /\ rt.pc = "graph"
       /\ g.pc = "returned"
       /\ SetStore(added.store)
       /\ res' = IF added.raised THEN route_boundary(res, "add_response")
                 ELSE success_result(res, final_state)
       /\ rt' = IdleRoute
       /\ g' = NoRun
       /\ UNCHANGED <<quotaVars, bans, mgrVars>>

\* MessageRouter._pre_check for user u with every lookup answering: get_quota
\* writes the row it creates or resets.
PreCheck(u) ==
    LET check == pre_check(bans[u], quotas[u], now, "none")
    IN /\ quotas' = [quotas EXCEPT ![u] = check.row]
       /\ banop' = [banop EXCEPT !.name = "pre_check", !.user = u, !.ok = check.allowed,
                                 !.reason = "none", !.t = now, !.before = <<>>]
       /\ UNCHANGED <<now, procs, calls, credited, quotas0, resets, g, storeVars,
                      routeVars, op, user_requests, user_messages, user_content, tasks, adds, recVars>>

\* _pre_check for user u started now, its is_banned lookup answered now and the
\* lookups after it at time t, the clock having moved on while they were awaited.
PreCheckAt(u, t) ==
    LET check == pre_check_at(bans[u], quotas[u], now, t, "none")
    IN /\ t >= now
       /\ t <= MaxBanTime
       /\ now' = t
       /\ quotas' = [quotas EXCEPT ![u] = check.row]
       /\ res' = [running_call(u, check) EXCEPT !.kind = "pre_check"]
       /\ UNCHANGED <<procs, calls, credited, quotas0, resets, g, storeVars, bans, rt,
                      mgrVars>>

\* ===================================================================
\* IntentRecognizer (core/intent.py)
\* ===================================================================

\* A text is what the recognizer can tell of it: whether it is blank after
\* strip(), whether it starts with "/", the keywords and pattern fragments it
\* contains, and whether it has 20 characters or more.
Text(blank, slash, found, long) ==
    [blank |-> blank, slash |-> slash, found |-> found, long |-> long]

Texts ==
    {Text(TRUE, FALSE, {}, FALSE),
     Text(FALSE, FALSE, {}, FALSE),
     Text(FALSE, FALSE, {"wet"}, FALSE),
     Text(FALSE, FALSE, {"weather", "rain", "role"}, TRUE),
     Text(FALSE, TRUE, {"/help", "weather"}, FALSE),
     Text(FALSE, TRUE, {}, FALSE)}

\* The texts of the calls that look at commands and at the order of the
\* rules: the ones above and a text that holds "/help" behind other words.
CommandTexts == Texts \cup {Text(FALSE, FALSE, {"/help"}, FALSE)}

\* IntentRule
IntentRule(intent, keywords, patterns, priority) ==
    [intent |-> intent, keywords |-> keywords, patterns |-> patterns, priority |-> priority]

\* DEFAULT_INTENT_RULES, one rule of each kind: keywords and patterns, a
\* command rule, the catch-all chat rule.
DEFAULT_INTENT_RULES ==
    <<IntentRule("weather", <<"weather", "rain">>, <<"weather", "wet">>, 10),
      IntentRule("role_play", <<"role">>, <<"role">>, 15),
      IntentRule("command", <<"/help">>, <<"/">>, 30),
      IntentRule("chat", <<"hello">>, <<".*">>, 0)>>

\* The rules handed to add_rule: a default one again, and one whose pattern a
\* default rule of lower priority has too.
AddedRules ==
    {DEFAULT_INTENT_RULES[1], IntentRule("context_end", <<>>, <<"wet">>, 20)}

\* A rule above the command rule whose keyword is a weather word.
UrgentRule == IntentRule("user_ban", <<"weather">>, <<>>, 40)

\* `kw in text`
keyword_in(kw, text) == kw \in text.found

\* pattern.search(text)
pattern_search(pattern, text) == pattern = ".*" \/ pattern \in text.found

\* list.sort(key=priority, reverse=True) after an append: the sort is stable,
\* so the rule goes behind the rules whose priority is not lower.
insert_by_priority(rules, rule) ==
    LET ahead == Cardinality({i \in 1..Len(rules) : rules[i].priority >= rule.priority})
    IN SubSeq(rules, 1, ahead) \o <<rule>> \o SubSeq(rules, ahead + 1, Len(rules))

\* The (rule, pattern) pairs of one rule, in the order of its patterns.
compile_rule(rule) ==
    [j \in 1..Len(rule.patterns) |-> [rule |-> rule, pattern |-> rule.patterns[j]]]

\* IntentRecognizer.add_rule
add_rule(rec, rule) ==
    [rules |-> insert_by_priority(rec.rules, rule),
     compiled_patterns |-> rec.compiled_patterns \o compile_rule(rule)]

\* remove_rules_by_intent filtering the rule list only.
remove_rules_by_intent_keeps_patterns(rec, intent) ==
    LET KeepRule(r) == r.intent # intent
    IN [rules |-> SelectSeq(rec.rules, KeepRule),
        compiled_patterns |-> rec.compiled_patterns]

\* IntentRecognizer.remove_rules_by_intent: the recognizer it leaves.
remove_rules_by_intent(rec, intent) ==
    LET KeepRule(r) == r.intent # intent
        KeepPair(c) == c.rule.intent # intent
    IN [rules |-> SelectSeq(rec.rules, KeepRule),
        compiled_patterns |-> SelectSeq(rec.compiled_patterns, KeepPair)]

\* removed_count = original_count - len(self.rules), the value returned.
removed_count(rec, intent) ==
    Len(rec.rules) - Len(remove_rules_by_intent(rec, intent).rules)

RECURSIVE init_from(_, _)
init_from(rec, rules) ==
    IF rules = <<>> THEN rec
    ELSE init_from(add_rule(rec, Head(rules)), Tail(rules))

\* IntentRecognizer.__init__: the rules sorted by priority, highest first, and
\* their patterns compiled in that order.
init_recognizer(rules) ==
    LET sorted == init_from([rules |-> <<>>, compiled_patterns |-> <<>>], rules).rules
    IN [rules |-> sorted,
        compiled_patterns |->
            init_from([rules |-> <<>>, compiled_patterns |-> <<>>], sorted).compiled_patterns]

IntentResult(intent, confidence) == [intent |-> intent, confidence |-> confidence]

\* _calculate_keyword_confidence, in hundredths:
\* min(0.7 + min(match_count * 0.1, 0.2), 1.0) * (1.0 if len(text) < 20 else 0.9)
calculate_keyword_confidence(text, keywords) ==
    LET match_count == Cardinality({i \in 1..Len(keywords) : keyword_in(keywords[i], text)})
        bonus == IF match_count * 10 < 20 THEN match_count * 10 ELSE 20
        score == IF 70 + bonus < 100 THEN 70 + bonus ELSE 100
    IN IF match_count = 0 THEN 0
       ELSE IF text.long THEN (score * 9) \div 10 ELSE score

\* A match by keyword only.
rule_match_keywords_only(rec, rule, text) ==
    IF rule.keywords # <<>>
       /\ \E i \in 1..Len(rule.keywords) : keyword_in(rule.keywords[i], text)
    THEN "keyword" ELSE "no"

\* The rule matches by a keyword, by one of its compiled patterns, or not.
rule_match(rec, rule, text) ==
    IF rule.keywords # <<>>
       /\ \E i \in 1..Len(rule.keywords) : keyword_in(rule.keywords[i], text)
    THEN "keyword"
    ELSE IF rule.patterns # <<>>
            /\ \E j \in 1..Len(rec.compiled_patterns) :
                  /\ rec.compiled_patterns[j].rule = rule
                  /\ pattern_search(rec.compiled_patterns[j].pattern, text)
    THEN "pattern"
    ELSE "no"

\* The command keywords looked for whether the text has a marker or not.
command_detected_no_marker(rec, text) ==
    \E i \in 1..Len(rec.rules) :
        /\ rec.rules[i].intent = "command"
        /\ \E k \in 1..Len(rec.rules[i].keywords) :
              keyword_in(rec.rules[i].keywords[k], text)

\* hints["has_command"] (the text starts with "/" or "\uff01") and some rule of
\* intent COMMAND has a keyword in the text.
command_detected(rec, text) ==
    /\ text.slash
    /\ \E i \in 1..Len(rec.rules) :
          /\ rec.rules[i].intent = "command"
          /\ \E k \in 1..Len(rec.rules[i].keywords) :
                keyword_in(rec.rules[i].keywords[k], text)

\* _recognize_by_rules taking, for a rule with patterns, the first compiled
\* pattern of any rule that matches.
recognize_by_rules_any_pattern(rec, text) ==
    LET hits == {j \in 1..Len(rec.compiled_patterns) :
                    /\ rec.compiled_patterns[j].rule.intent # "command"
                    /\ pattern_search(rec.compiled_patterns[j].pattern, text)}
        first == CHOOSE j \in hits : \A k \in hits : j <= k
    IN IF hits = {} THEN IntentResult("chat", 50)
       ELSE IntentResult(rec.compiled_patterns[first].rule.intent, 85)

\* IntentRecognizer._recognize_by_rules
recognize_by_rules(rec, text) ==
    LET rules == rec.rules
        Matching(i) ==
            rules[i].intent # "command" /\ rule_match(rec, rules[i], text) # "no"
        hits == {i \in 1..Len(rules) : Matching(i)}
        first == CHOOSE i \in hits : \A k \in hits : i <= k
    IN IF command_detected(rec, text)
       THEN IntentResult("command", 95)
       ELSE IF hits = {} THEN IntentResult("chat", 50)
       ELSE IF rule_match(rec, rules[first], text) = "keyword"
       THEN IntentResult(rules[first].intent,
                         calculate_keyword_confidence(text, rules[first].keywords))
       ELSE IntentResult(rules[first].intent, 85)

\* IntentRecognizer.recognize / recognize_sync
recognize(rec, text) ==
    IF text.blank THEN IntentResult("unknown", 0) ELSE recognize_by_rules(rec, text)

\* ---- the recognizer shared by the pipeline runs

Runs == {"run1", "run2"}

NoCall ==
    [made |-> FALSE, rules |-> <<>>, compiled_patterns |-> <<>>,
     text |-> Text(TRUE, FALSE, {}, FALSE), intent |-> "unknown", confidence |-> 0]

\* No rule call made yet. held is the number of rules of the intent the
\* recognizer had when remove_rules_by_intent was called, removed the value
\* the call returned, again whether the call before it was a
\* remove_rules_by_intent of the same intent.
NoRuleOp ==
    [name |-> "none", intent |-> "unknown", held |-> 0, removed |-> 0, again |-> FALSE]

\* A pipeline run asks for the intent of a text: the call reads the rules and
\* the compiled patterns and returns without suspending.
Recognize(run, text) ==
    LET result == recognize(recognizer, text)
        call == [made |-> TRUE, rules |-> recognizer.rules,
                 compiled_patterns |-> recognizer.compiled_patterns, text |-> text,
                 intent |-> result.intent, confidence |-> result.confidence]
    IN /\ recognized' = [recognized EXCEPT ![run] = call]
       /\ UNCHANGED <<quotaVars, g, storeVars, routeVars, op, user_requests,
                      user_messages, user_content, tasks, adds, banop, recognizer, ruleop>>

\* add_rule(rule) with a rule the recognizer does not hold.
AddRule(rule) ==
    /\ \A i \in 1..Len(recognizer.rules) : recognizer.rules[i] # rule
    /\ recognizer' = add_rule(recognizer, rule)
    /\ ruleop' = [NoRuleOp EXCEPT !.name = "add_rule", !.intent = rule.intent]
    /\ UNCHANGED <<quotaVars, g, storeVars, routeVars, op, user_requests,
                   user_messages, user_content, tasks, adds, banop, recognized>>

\* remove_rules_by_intent(intent)
RemoveRulesByIntent(intent) ==
    /\ recognizer' = remove_rules_by_intent(recognizer, intent)
    /\ ruleop' = [name |-> "remove_rules_by_intent", intent |-> intent,
                  held |-> Cardinality({i \in 1..Len(recognizer.rules) :
                                           recognizer.rules[i].intent = intent}),
                  removed |-> removed_count(recognizer, intent),
                  again |-> ruleop.name = "remove_rules_by_intent"
                            /\ ruleop.intent = intent]
    /\ UNCHANGED <<quotaVars, g, storeVars, routeVars, op, user_requests,
                   user_messages, user_content, tasks, adds, banop, recognized>>

\* ===================================================================
\* Specifications
\* ===================================================================

\* No session-store or BanManager call made yet, nothing tracked.
InitManagers ==
    /\ op = NoOp
    /\ user_requests = [u \in Users |-> <<>>]
    /\ user_messages = [u \in Users |-> <<>>]
    /\ user_content = [u \in Users |-> <<>>]
    /\ tasks = [k \in TaskIds |-> IdleTask]
    /\ adds = [k \in AddIds |-> IdleAdd]
    /\ recognizer = init_recognizer(DEFAULT_INTENT_RULES)
    /\ recognized = [run \in Runs |-> NoCall]
    /\ ruleop = NoRuleOp
    /\ banop = NoBanOp

\* No session, no ban, no route_message call yet.
InitStoreEmpty ==
    /\ InitManagers
    /\ users = EmptyStore.users
    /\ contexts = EmptyStore.contexts
    /\ messages = EmptyStore.messages
    /\ cache = EmptyStore.cache
    /\ bans = [u \in Users |-> <<>>]
    /\ rt = IdleRoute
    /\ res = NoResult

InitTokensIdle ==
    /\ now = 0
    /\ procs = [p \in Procs |-> IdleFrame]
    /\ calls = 0
    /\ credited = [u \in Users |-> 0]
    /\ quotas0 = quotas
    /\ resets = {}

InitGraph ==
    /\ quotas = [u \in Users |-> NoQuota]
    /\ InitTokensIdle
    /\ InitStoreEmpty
    /\ \E u \in Users, c \in {NoneId, CtxIds[1]} : g = StartRun(create_initial_state(u, c))

\* One run of LangGraphManager.process.
SpecGraph == InitGraph /\ [][GraphStep]_vars

\* ---- the session store

\* One private session, just created by its user.
InitStore ==
    /\ quotas = [u \in Users |-> NoQuota]
    /\ InitTokensIdle
    /\ g = NoRun
    /\ SetStoreInit(create_context(EmptyStore, "private", "u1", 0, 0, NoExc).store)
    /\ bans = [u \in Users |-> <<>>]
    /\ rt = IdleRoute
    /\ res = NoResult
    /\ InitManagers

NextStore ==
    \/ \E c \in CtxIdSet : AddMessage(c, contexts[c].creator_id, "user")
    \/ \E c \in CtxIdSet : GetContext(c)
    \/ Idle

\* Messages added to a session, with reads and idle hours in between.
SpecStore == InitStore /\ [][NextStore]_vars

\* Saves, reads and deletes of sessions with the cache or the durable store
\* failing, and an idle hour.
NextHybrid ==
    \/ \E context \in SavedSessions, flt \in SaveFaults : StorageSave(context, flt)
    \/ \E c \in OpCtxIds, fill \in BOOLEAN :
          StorageGet(c, [NoFaults EXCEPT !.fill = fill])
    \/ \E c \in OpCtxIds, flt \in SaveFaults : StorageDelete(c, flt)
    \/ Idle

SpecHybrid == InitStore /\ [][NextHybrid]_vars

\* The life of one session under the calls of the session manager.
NextSession ==
    \/ PauseContext(CtxIds[1])
    \/ ResumeContext(CtxIds[1])
    \/ \E u \in Users : AddParticipant(CtxIds[1], u)
    \/ \E u \in Users : RemoveParticipant(CtxIds[1], u)
    \/ \E u \in Users, exc \in {NoExc, DbError} : SessionAddMessage(CtxIds[1], u, exc)
    \/ \E exc \in {NoExc, DbError} : IsBanned("u1", exc)
    \/ DeleteContext(CtxIds[1])
    \/ SessionGet(CtxIds[1])
    \/ CleanupExpired
    \/ Idle

SpecSession == InitStore /\ [][NextSession]_vars

\* Sessions with and without an expiry, paused, resumed, listed and cleaned
\* up while hours pass.
NextMaintenance ==
    \/ \E u \in Users, hours \in {0, 1} : CreateContext(u, hours)
    \/ PauseContext(CtxIds[1])
    \/ ResumeContext(CtxIds[1])
    \/ \E user_id \in Users \cup {NoneId} : ListActiveContexts(user_id)
    \/ CleanupExpired
    \/ AdvanceTo(HourSeconds + 1)

SpecMaintenance == InitStore /\ [][NextMaintenance]_vars

\* Two add_message coroutines on the one session, reads of its messages and an
\* idle hour that lets the cached copy run out.
NextAdders ==
    \/ \E k \in AddIds, sender_id \in Users : AddGet(k, CtxIds[1], sender_id)
    \/ \E k \in AddIds : AddInsert(k)
    \/ \E k \in AddIds : AddSave(k)
    \/ GetMessages(CtxIds[1], NoLimit)
    \/ Idle

SpecAdders == InitStore /\ [][NextAdders]_vars

\* The limits get_messages is called with.
Limits == {NoLimit, 1, 2, 3}

\* Messages added to a session and its history read, from the cache or, after
\* an idle hour, from the durable store.
NextMessages ==
    \/ \E u \in Users, exc \in {NoExc, DbError} : SessionAddMessage(CtxIds[1], u, exc)
    \/ \E c \in OpCtxIds, limit \in Limits : GetMessages(c, limit)
    \/ Idle

SpecMessages == InitStore /\ [][NextMessages]_vars

\* ---- the ban manager

InitBan ==
    /\ quotas = [u \in Users |-> NoQuota]
    /\ InitTokensIdle
    /\ g = NoRun
    /\ InitStoreEmpty

\* Bans placed and lifted while the clock runs past their expiry.
NextBan ==
    \/ \E u \in Users, ban_type \in BanTypes, h \in BanHours : BanUser(u, ban_type, h)
    \/ \E u \in Users : UnbanUser(u)
    \/ \E t \in BanClock : AdvanceTo(t)

SpecBan == InitBan /\ [][NextBan]_vars

\* Temporary bans of one hour and pre-checks, started at one instant of the
\* clock and finished at the same or a later one.
NextPreCheck ==
    \/ \E u \in Users : BanUser(u, "temporary", 1)
    \/ \E u \in Users : PreCheckAt(u, now)
    \/ \E u \in Users, t \in BanClock : PreCheckAt(u, t)

SpecPreCheck == InitBan /\ [][NextPreCheck]_vars

\* detect_abuse calls of a user inside and across the window, with calls of
\* another user, a ban and a cleanup of the tracking in between.
NextAbuse ==
    \/ DetectAbuse("u1", "", 0)
    \/ Len(banop.made["u2"]) < MaxOtherDetects /\ DetectAbuse("u2", "", 0)
    \/ banop.seq < MaxAbuseBans /\ BanUser("u1", "temporary", 1)
    \/ CleanupTracking
    \/ \E d \in TickSteps : Tick(d)

SpecAbuse == InitBan /\ [][NextAbuse]_vars

\* ---- the router

\* The token_quotas rows of the router runs: a row with room, one whose minute
\* log is full, one whose daily allowance is used up, one with both.
RouterQuota(dused, mlimit) ==
    [exists |-> TRUE, total_quota |-> 3, used |-> 1, daily_limit |-> 2,
     daily_used |-> dused, daily_reset |-> DaySeconds, minute_limit |-> mlimit,
     minute_requests |-> <<0>>]

RouterRows == {NoQuota} \cup {RouterQuota(d, m) : d \in {1, 2}, m \in {1, 2}}

\* The ban_records rows of the router runs: none, or one ban_user made.
RouterBans ==
    {<<>>, <<ban_record("temporary", 1, 0)>>, <<ban_record("permanent", 1, 0)>>}

InitRouter ==
    /\ \E row \in RouterRows, rows \in RouterBans :
          /\ quotas = [u \in Users |-> IF u = "u1" THEN row ELSE NoQuota]
          /\ bans = [u \in Users |-> IF u = "u1" THEN rows ELSE <<>>]
          /\ rows # <<>> => row = RouterQuota(1, 2)
    /\ InitTokensIdle
    /\ g = NoRun
    /\ SetStoreInit(EmptyStore)
    /\ rt = IdleRoute
    /\ res = NoResult
    /\ InitManagers

NextRouter ==
    \/ \E u \in Users, group_id \in GroupIds, fail \in CallFails : RouteCall(u, group_id, fail)
    \/ GraphStepOn(RouterIntents, RouterGens)
    \/ \E fail \in FinishFails : RouteFinish(fail)

\* route_message calls, one after another.
SpecRouter == InitRouter /\ [][NextRouter]_vars

\* A row whose daily allowance is used up and whose reset time comes after
\* half a minute.
OverdueQuota == [RouterQuota(2, 2) EXCEPT !.daily_reset = 30]

\* Users with no quota row, a row with room, a row that denies, or a row due
\* for its daily reset; nobody is banned.
InitRouterQuota ==
    /\ \E row \in {NoQuota, RouterQuota(1, 2), RouterQuota(1, 1), OverdueQuota} :
          quotas = [u \in Users |-> IF u = "u1" THEN row ELSE NoQuota]
    /\ bans = [u \in Users |-> <<>>]
    /\ InitTokensIdle
    /\ g = NoRun
    /\ SetStoreInit(EmptyStore)
    /\ rt = IdleRoute
    /\ res = NoResult
    /\ InitManagers

NextRouterQuota ==
    \/ \E u \in Users, fail \in {"none", "check_daily_limit"} : RouteCall(u, NoneId, fail)
    \/ GraphStepOn(RouterIntents, RouterGens)
    \/ RouteFinish("none")
    \/ \E d \in TickSteps : Tick(d)

\* route_message calls and nothing else touching the quota rows, while the
\* minute passes.
SpecRouterQuota == InitRouterQuota /\ [][NextRouterQuota]_vars

\* The instants at which a request made at 0 leaves the spam, the
\* repeated-content and the rapid-request window.
HeuristicClock == {SPAM_WINDOW, REPEAT_WINDOW, RAPID_REQUEST_WINDOW}

\* The last call of the user carried neither a token burst nor the message "b".
NoProbeYet == banop.tokens = 0 /\ banop.content # "b"

\* detect_abuse calls of a user, as many as the rapid-request threshold takes,
\* inside and across the three windows: calls without a message, then calls
\* with the message "a", then one call with a token burst or the message "b".
NextHeuristics ==
    \/ NoProbeYet /\ user_messages["u1"] = <<>> /\ DetectAbuse("u1", "", 0)
    \/ NoProbeYet /\ DetectAbuse("u1", "a", 0)
    \/ NoProbeYet /\ DetectAbuse("u1", "b", 0)
    \/ \E c \in {"", "a", "b"} :
          NoProbeYet /\ DetectAbuse("u1", c, TOKEN_BURST_THRESHOLD + 1)
    \/ \E t \in HeuristicClock : AdvanceTo(t)

SpecHeuristics == InitBan /\ [][NextHeuristics]_vars

\* Messages of a user checked inside and across the repeated-content window,
\* with a message of another user and a ban of the user in between.
NextRepeat ==
    \/ \E c \in {"a", "b"} :
          Len(banop.made["u1"]) < MaxRepeatDetects /\ DetectAbuse("u1", c, 0)
    \/ Len(banop.made["u2"]) < MaxOtherDetects /\ DetectAbuse("u2", "a", 0)
    \/ banop.seq < MaxAbuseBans /\ BanUser("u1", "temporary", 1)
    \/ \E t \in {SPAM_WINDOW, REPEAT_WINDOW} : AdvanceTo(t)

SpecRepeat == InitBan /\ [][NextRepeat]_vars

\* Concurrent detect_abuse calls of two users while the clock runs past the
\* rapid-request window.
NextTasks ==
    \/ \E k \in TaskIds, u \in Users : DetectSpawn(k, u, "", 0)
    \/ \E k \in TaskIds : DetectRun(k)
    \/ \E d \in TickSteps : Tick(d)

SpecTasks == InitBan /\ [][NextTasks]_vars

\* ---- the intent recognizer

\* Two pipeline runs ask the shared recognizer while rules are added and removed.
NextIntent ==
    \/ \E run \in Runs, text \in Texts : Recognize(run, text)
    \/ \E rule \in AddedRules : AddRule(rule)
    \/ \E intent \in {"weather", "context_end"} :
          /\ \E i \in 1..Len(recognizer.rules) : recognizer.rules[i].intent = intent
          /\ RemoveRulesByIntent(intent)

SpecIntent == InitBan /\ [][NextIntent]_vars

\* One pipeline run asking, with rules of any priority added and the rules of
\* an intent removed, held or not, in between.
NextRules ==
    \/ \E text \in CommandTexts : Recognize("run1", text)
    \/ \E rule \in AddedRules \cup {UrgentRule} : AddRule(rule)
    \/ \E intent \in {"weather", "context_end", "chat", "command"} :
          RemoveRulesByIntent(intent)

SpecRules == InitBan /\ [][NextRules]_vars

\* ---- the minute-request log

\* u1 has no row yet or a row with one request logged at time 0, its daily
\* reset a day away or due when that request leaves the window.
InitLog ==
    /\ \E row \in {NoQuota, RouterQuota(1, 2),
                    [RouterQuota(1, 2) EXCEPT !.daily_reset = MinuteWindow + 1]} :
          quotas = [u \in Users |-> IF u = "u1" THEN row ELSE NoQuota]
    /\ InitTokensIdle
    /\ g = NoRun
    /\ InitStoreEmpty

LogClock == {30, 61}

\* Pre-checks, consume calls and detect_abuse calls while the clock runs past
\* the window of the logged request.
NextLog ==
    \/ \E u \in Users : PreCheck(u)
    \/ \E n \in {1, DEFAULT_DAILY_LIMIT + 1} : ConsumeCall("p1", "u1", n)
    \/ ConsumeCreate("p1")
    \/ ConsumeResetGet("p1")
    \/ ConsumeResetUpdate("p1")
    \/ ConsumeIncGet("p1")
    \/ ConsumeIncUpdate("p1")
    \/ ConsumeRecordUpdate("p1")
    \/ ConsumeReturn("p1")
    \/ \E n \in {0, TOKEN_BURST_THRESHOLD + 1} :
          TotalDetects < MaxLogDetects /\ DetectAbuse("u1", "", n)
    \/ \E t \in LogClock : AdvanceTo(t)

SpecLog == InitLog /\ [][NextLog]_vars

\* ---- the token controller


\* Rows the table can hold when the run starts: none yet, or a row whose limits
\* were set with add_quota / set_daily_limit / set_minute_limit.
SmallQuota(dused, reset, mlimit) ==
    [exists |-> TRUE, total_quota |-> 3, used |-> 1, daily_limit |-> 2,
     daily_used |-> dused, daily_reset |-> reset, minute_limit |-> mlimit,
     minute_requests |-> <<>>]

InitRows ==
    {NoQuota} \cup
    {SmallQuota(d, r, m) : d \in {0, 1}, r \in {30, DaySeconds}, m \in {1, 2}}

InitQuota ==
    /\ now = 0
    /\ quotas \in [Users -> InitRows]
    /\ quotas["u2"] = NoQuota
    /\ procs = [p \in Procs |-> IdleFrame]
    /\ calls = 0
    /\ credited = [u \in Users |-> 0]
    /\ quotas0 = quotas
    /\ resets = {}
    /\ g = NoRun
    /\ InitStoreEmpty

NextQuota ==
    \/ \E p \in Procs : ConsumeStep(p)
    \/ \E d \in TickSteps : Tick(d)

\* consume() calls interleaved at their await points.
SpecQuota == InitQuota /\ [][NextQuota]_vars

NextQuotaSeq ==
    \/ ConsumeStep("p1")
    \/ \E d \in TickSteps : Tick(d)

\* consume() calls run one after another.
SpecQuotaSeq == InitQuota /\ [][NextQuotaSeq]_vars

NextQuotaReads ==
    \/ \E u \in Users : GetQuota("p1", u)
    \/ ConsumeStep("p1")
    \/ \E d \in TickSteps : Tick(d)

\* get_quota and consume calls run one after another.
SpecQuotaReads == InitQuota /\ [][NextQuotaReads]_vars

\* ===================================================================
\* Claims about TokenController.consume
\* ===================================================================

\* The quota record a call made at time t works on: the stored row, or the
\* default row that get_quota creates when there is none.
QuotaView(row, t) == IF row.exists THEN row ELSE create_default_quota(t)

\* The call of frame f found the daily reset due.
ResetDue(f) == f.pre.exists /\ f.t0 >= f.pre.daily_reset

\* Daily remaining as check_quota sees it: after the reset when one was due.
DailyRemainingAfterReset(f) ==
    IF ResetDue(f) THEN f.pre.daily_limit ELSE daily_remaining(QuotaView(f.pre, f.t0))

FinishedSeq == procs["p1"].pc = "done"

\* C3 as stated: when n exceeds total remaining or daily remaining at the call,
\* consume returns False and used, daily_used and the minute log are as before.
C3_Original ==
    LET f == procs["p1"]
        pre == QuotaView(f.pre, f.t0)
        cur == quotas[f.user]
    IN (FinishedSeq /\ (f.tokens > remaining(pre) \/ f.tokens > daily_remaining(pre)))
       => /\ f.ret = "false"
          /\ cur.used = pre.used
          /\ cur.daily_used = pre.daily_used
          /\ cur.minute_requests = pre.minute_requests

\* C3 amended: when n exceeds total remaining, or daily remaining as it stands
\* after the daily reset the call performs when it is due, consume returns False
\* and leaves used as it was; daily_used and the minute log are as before unless
\* that reset was due, and then daily_used is 0 and the log has only lost
\* timestamps that had left the 60 s window.
C3_ConsumeRefusedLeavesQuota ==
    LET f == procs["p1"]
        pre == QuotaView(f.pre, f.t0)
        cur == quotas[f.user]
    IN (FinishedSeq /\ (f.tokens > remaining(pre) \/ f.tokens > DailyRemainingAfterReset(f)))
       => /\ f.ret = "false"
          /\ cur.used = pre.used
          /\ IF ResetDue(f)
             THEN /\ cur.daily_used = 0
                  /\ \E t \in f.t0..now :
                        cur.minute_requests = validate_minute_requests(pre.minute_requests, t)
             ELSE /\ cur.daily_used = pre.daily_used
                  /\ cur.minute_requests = pre.minute_requests

\* C3 witness: a refused consume whose call also reset a non-zero daily_used and
\* dropped an expired timestamp.
C3_Witness ==
    LET f == procs["p1"]
    IN /\ FinishedSeq
       /\ f.ret = "false"
       /\ f.tokens > remaining(QuotaView(f.pre, f.t0))
       /\ ResetDue(f)
       /\ f.pre.daily_used > 0
       /\ quotas[f.user].daily_used = 0
       /\ Len(quotas[f.user].minute_requests) < Len(f.pre.minute_requests)

NoCallRunning == \A p \in Procs : procs[p].pc \in {"idle", "done"}

\* C4: once every consume call has finished, used is its initial value plus the
\* tokens of the calls that returned True, and so is daily_used for a user whose
\* daily counters no reset has rewritten.
C4_ConsumeAddsExactly ==
    NoCallRunning =>
        \A u \in Users :
            LET v0 == QuotaView(quotas0[u], 0)
            IN quotas[u].exists =>
                /\ quotas[u].used = v0.used + credited[u]
                /\ (u \notin resets => quotas[u].daily_used = v0.daily_used + credited[u])

\* C5: no stored quota row has used above total_quota or daily_used above
\* daily_limit.
C5_UsedWithinLimits ==
    \A u \in Users :
        quotas[u].exists =>
            /\ quotas[u].used <= quotas[u].total_quota
            /\ quotas[u].daily_used <= quotas[u].daily_limit

\* ===================================================================
\* Claims about the routing state machine
\* ===================================================================

\* The fixed user-safe message of an error code.
SafeMessage(code) ==
    IF code = "INTENT_CLASSIFY_ERROR" THEN MSG_CLASSIFY
    ELSE IF code = "CONTEXT_LOAD_ERROR" THEN MSG_CONTEXT
    ELSE IF code = "RESPONSE_GENERATE_ERROR" THEN MSG_GENERATE
    ELSE MSG_GENERIC

NoDuplicates(seq) ==
    \A i, j \in 1..Len(seq) : i < j => seq[i] # seq[j]

\* C8: when a stage failed, the state process returns has stage FAILED, the error
\* code of a failure of the run, and as response the non-empty fixed message of
\* that code, never the exception's text.
C8_FailureYieldsFailedState ==
    (g.pc = "returned" /\ g.failures # {})
    => /\ g.st.processing_stage = "failed"
       /\ g.st.error_code \in g.failures
       /\ g.st.response = SafeMessage(g.st.error_code)
       /\ g.st.response # ""
       /\ g.st.response \notin {e.text : e \in Excs}

\* A run that has not returned can take a step.
RunProgresses == g.pc \notin {"none", "returned"} => ENABLED GraphStep

\* C9: the run goes on until process returns, no stage is entered twice, and the
\* returned state has stage COMPLETED or FAILED.
C9_RunTerminates ==
    /\ RunProgresses
    /\ NoDuplicates(g.stages)
    /\ g.pc = "returned" => is_terminal_state(g.st)

\* ===================================================================
\* Claims about the message router
\* ===================================================================

\* The step is the start of a route_message call.
RouteCalled == calls' = calls + 1 /\ UNCHANGED procs

\* C1: a route_message call whose pre-check denies returns success=false with
\* the denial reason as response, creates no session, appends no message,
\* changes no user's current-session pointer and does not start the state machine.
C1_DenialTouchesNothing ==
    [][(RouteCalled /\ ~res'.allowed)
       => /\ res'.kind = "return"
          /\ res'.success = FALSE
          /\ res'.response = res'.reason
          /\ UNCHANGED <<users, contexts, messages, cache, recVars>>
          /\ UNCHANGED <<g, rt, recVars>>]_vars

\* C1 witness: a banned user was turned away while another user's session,
\* with its message, is in the store.
C1_Witness ==
    /\ res.kind = "return"
    /\ ~res.allowed
    /\ res.check_code = "USER_BANNED"
    /\ res.response = REASON_BAN_MINUTES
    /\ \E c \in CtxIdSet : contexts[c].exists /\ messages[c] # <<>>

\* The error code the pre-check is to give: the first failing check in the
\* order ban, total quota, per-minute rate, daily limit, for a request of
\* `tokens` tokens; "none" when the request is to be allowed.
ExpectedAdmission(rows, row, tokens, t) ==
    LET q == quota_orm_to_model(get_quota(row, t), t)
    IN IF check_ban_status(rows, t).found THEN "USER_BANNED"
       ELSE IF remaining(q) < tokens THEN "QUOTA_EXCEEDED"
       ELSE IF Len(validate_minute_requests(q.minute_requests, t)) >= q.minute_limit
            THEN "RATE_LIMIT_EXCEEDED"
       ELSE IF daily_remaining(q) <= 0 THEN "DAILY_LIMIT_EXCEEDED"
       ELSE "none"

\* C2: a pre-check none of whose steps raised denies with the error code of the
\* first failing check in the order ban, total quota, per-minute rate, daily
\* limit, and allows the request exactly when none of the four fails.
C2_PreCheckOrder ==
    [][(RouteCalled /\ ~res'.pre_raised)
       => LET expected == ExpectedAdmission(bans[res'.user], quotas[res'.user], 0, now)
          IN /\ res'.check_code = expected
             /\ res'.allowed <=> expected = "none"]_vars

\* A route_message call under way can go on.
RouteProgresses ==
    rt.pc = "graph" =>
        ENABLED (GraphStepOn(RouterIntents, RouterGens) \/ \E fail \in FinishFails : RouteFinish(fail))

\* C6: route_message never raises to its caller: a call under way goes on to its
\* return, no call ends with an exception, and an exception that reached the
\* boundary of route_message gave success=false with the fixed apology.
C6_RouteNeverRaises ==
    /\ res.kind # "raise"
    /\ RouteProgresses
    /\ res.boundary # "none"
       => res.kind = "return" /\ res.success = FALSE /\ res.response = MSG_ROUTER_ERROR

\* C6 witness: the state machine ran, the append of its response raised, and the
\* call returned the failed result.
C6_Witness ==
    /\ res.kind = "return"
    /\ res.boundary = "add_response"
    /\ res.success = FALSE
    /\ rt.pc = "idle"

\* C7: a returned success=true goes with a run that ended without an error
\* code; a run that ended with an error code gives success=false and that code.
C7_SuccessOnlyWithoutError ==
    (res.kind = "return" /\ res.boundary = "none" /\ res.allowed)
    => /\ res.success => res.final_code = "none"
       /\ res.final_code # "none" => (res.success = FALSE /\ res.error = res.final_code)

\* How many of the detect_abuse calls of user u after its first `from` ones
\* were made less than one window before time t.
CallsInWindow(u, from, t) ==
    Cardinality({i \in (from + 1)..Len(banop.made[u]) :
                    t - banop.made[u][i] < RAPID_REQUEST_WINDOW})

\* The last call was a detect_abuse that reported too-frequent requests.
ReportedTooFrequent == banop.ok /\ banop.reason = "too_frequent"

C18_PreCheckFailsOpen ==
    (res.kind # "none" /\ res.pre_raised)
    => /\ res.allowed
       /\ res.kind # "raise"
       /\ res.check_code = "none"

\* ===================================================================
\* Claims about the session store
\* ===================================================================

\* C10: the message list get_context obtains for a session, from the cache or
\* from the durable store after a miss, has at most max_messages entries: the
\* most recently added ones, in arrival order.
C10_MessageListCapped ==
    \A c \in CtxIdSet :
        LET ctx == hybrid_get(Store, c, now).ctx
        IN ctx.context_id # NoneId
           => /\ Len(ctx.messages) <= MAX_MESSAGES
              /\ ctx.messages = trim_messages(messages[c])


\* A call of the session store has just been made.
StoreCalled(name) == op'.seq = op.seq + 1 /\ op'.name = name

\* The cache holds a live key for the session.
Held(cid) == cache[cid].present /\ now < cache[cid].expires_at

\* The get follows, with no time in between, a save of the same session that
\* returned True.
GetFollowsSave ==
    /\ op.name = "get"
    /\ op.prev.name = "save"
    /\ op.prev.ok
    /\ op.prev.cid = op.cid
    /\ op.prev.t = op.t

C12_SaveMakesBothWrites ==
    [][StoreCalled("save")
       => LET context == op'.arg
              cid == context.context_id
              flt == op'.flt
          IN /\ ~op'.raised
             /\ op'.ok <=> (~flt.cache /\ ~flt.db)
             /\ ~flt.cache => /\ cache'[cid].present
                              /\ cache'[cid].expires_at = now + CONTEXT_TTL
                              /\ context_deserialize(cache'[cid].data) = context
             /\ flt.cache => cache' = cache
             /\ ~flt.db => /\ contexts'[cid].exists
                           /\ contexts'[cid].status = context.status
                           /\ contexts'[cid].participants = context.participants
             /\ flt.db => contexts' = contexts]_vars

\* A save whose cache write failed has created the row of a new session.
C12_Witness ==
    /\ op.name = "save"
    /\ op.flt.cache
    /\ ~op.flt.db
    /\ ~op.ok
    /\ op.prev.cid # op.cid
    /\ contexts[op.cid].exists
    /\ ~cache[op.cid].present

GetFollowsDelete ==
    /\ op.name = "get"
    /\ op.prev.name = "delete"
    /\ op.prev.ok
    /\ op.prev.cid = op.cid

\* C14: after delete_context(id) returned True the cache has no entry for id,
\* the durable store still has the session, its status DELETED, and the next
\* get_context(id) returns the session with status DELETED, not nothing.
C14_DeleteKeepsTheSession ==
    /\ (op.name = "delete" /\ op.ok)
          => /\ ~cache[op.cid].present
             /\ contexts[op.cid].exists
             /\ contexts[op.cid].status = "deleted"
    /\ GetFollowsDelete
          => /\ op.out.context_id = op.cid
             /\ op.out.status = "deleted"

\* A deleted session has been read back.
C14_Witness == GetFollowsDelete /\ op.out.status = "deleted"

ClosedStatuses == {"expired", "archived", "deleted"}

\* C15: the status of a session moves ACTIVE -> PAUSED, PAUSED -> ACTIVE or
\* to EXPIRED, ARCHIVED or DELETED; once it is one of these three it is never
\* ACTIVE or PAUSED again.
C15_StatusMovesOneWay ==
    [][\A c \in CtxIdSet :
          contexts[c].exists
          => /\ contexts'[c].exists
             /\ contexts[c].status \in ClosedStatuses
                   => contexts'[c].status \in ClosedStatuses]_vars

\* ===================================================================
\* Claims about the ban manager
\* ===================================================================

\* The only ban ever placed on user u, which no unban_user has touched.
OnlyBan(u) == banop.placed[u][1]

HasOnlyBan(u) == Len(banop.placed[u]) = 1 /\ u \notin banop.unbanned

\* C16: with one TEMPORARY ban placed on a user at time t for d hours and no
\* other ban, is_banned is true at every time in [t, t+d) and false from t+d
\* on; with one PERMANENT ban it is true at every later time.
C16_BanLastsItsDuration ==
    \A u \in Users :
        HasOnlyBan(u)
        => IF OnlyBan(u).ban_type = "temporary"
           THEN is_banned(bans[u], now)
                <=> /\ OnlyBan(u).t <= now
                    /\ now < OnlyBan(u).t + OnlyBan(u).duration_hours * HourSeconds
           ELSE is_banned(bans[u], now)

\* The clock stands at the expiry of the one-hour ban of a user: the ban is over.
C16_Witness ==
    \E u \in Users :
        /\ HasOnlyBan(u)
        /\ OnlyBan(u).ban_type = "temporary"
        /\ OnlyBan(u).t = 1
        /\ now = OnlyBan(u).t + HourSeconds
        /\ ~is_banned(bans[u], now)

\* C17: after unban_user(u) returned True, is_banned(u) is false and the
\* pre-check does not deny u for a ban, whatever ban u had; unban_user returns
\* False and changes nothing when u has no active ban.
C17_UnbanLiftsEveryBan ==
    banop.name = "unban"
    => IF banop.ok
       THEN /\ ~is_banned(bans[banop.user], now)
            /\ pre_check(bans[banop.user], quotas[banop.user], now, "none").error_code
                 # "USER_BANNED"
       ELSE /\ bans[banop.user] = banop.before
            /\ ~is_banned(banop.before, banop.t)

\* ===================================================================
\* Claims about the minute-request log
\* ===================================================================

\* No timestamp of the log was logged w or more seconds before time t.
LogWithin(log, t, w) == \A i \in 1..Len(log) : t - log[i] < w

\* The consume call of p1 has returned True or False.
ConsumeDone == procs["p1"].pc = "done" /\ procs["p1"].ret # "raise"

\* C20 as it was stated: after a pre-check, a consume or a detect_abuse call
\* made at time now for a user, the stored minute-request log of the user has
\* no timestamp older than 60 seconds before now.
C20_Original ==
    /\ (banop.name \in {"pre_check", "detect_abuse"} /\ banop.t = now)
          => LogWithin(quotas[banop.user].minute_requests, now, MinuteWindow + 1)
    /\ ConsumeDone
          => LogWithin(quotas[procs["p1"].user].minute_requests, procs["p1"].t0,
                       MinuteWindow + 1)

\* C20: the minute-request log of the TokenQuota a call reads at time now has
\* no timestamp logged 60 seconds or more before now, and neither has the log
\* stored by a consume call that returned True.
C20_LogPrunedWhenReadOrWritten ==
    /\ \A u \in Users :
          LogWithin(quota_orm_to_model(quotas[u], now).minute_requests, now, MinuteWindow)
    /\ (ConsumeDone /\ procs["p1"].ret = "true")
          => LogWithin(quotas[procs["p1"].user].minute_requests, procs["p1"].t0,
                       MinuteWindow)

\* A consume call that found a request logged more than 60 seconds ago has
\* returned True.
C20_Witness ==
    /\ ConsumeDone
    /\ procs["p1"].ret = "true"
    /\ ~LogWithin(procs["p1"].pre.minute_requests, procs["p1"].t0, MinuteWindow)
    /\ quotas[procs["p1"].user].minute_requests = <<procs["p1"].t0>>

\* ===================================================================
\* Claims about abuse detection
\* ===================================================================

\* How often the timestamp ts is in the log.
Occurrences(log, ts) == Cardinality({i \in 1..Len(log) : log[i] = ts})

\* The concurrent detect_abuse calls of user u that have returned.
DoneTasks(u) == {k \in TaskIds : tasks[k].state = "done" /\ tasks[k].user = u}

\* C21: when the concurrent detect_abuse calls have all returned, the request
\* window of each user holds one timestamp for every call of the user made
\* less than one window before the user's latest call, and nothing else.
C21_NoRequestLost ==
    (\A k \in TaskIds : tasks[k].state # "pending")
    => \A u \in Users :
          LET times == {tasks[k].t : k \in DoneTasks(u)}
              Latest(ts) == \A other \in times : other <= ts
              Calls(ts) == Cardinality({k \in DoneTasks(u) : tasks[k].t = ts})
          IN /\ \A i \in 1..Len(user_requests[u]) : user_requests[u][i] \in times
             /\ \A ts \in times, last \in times :
                   Latest(last)
                   => Occurrences(user_requests[u], ts)
                        = IF last - ts < RAPID_REQUEST_WINDOW THEN Calls(ts) ELSE 0

\* Three calls of one user waited for the event loop together, ran at the
\* same instant and are all in the window.
C21_Witness ==
    /\ \A k \in TaskIds : tasks[k].state = "done" /\ tasks[k].user = "u1"
    /\ \E k \in TaskIds : tasks[k].overlap
    /\ \A k \in TaskIds : tasks[k].t = now
    /\ Len(user_requests["u1"]) = Cardinality(TaskIds)

\* How many of the timestamps of the log lie less than w before time t.
CountWithin(log, t, w) == Cardinality({i \in 1..Len(log) : t - log[i] < w})

\* How many entries of the content window lie less than w before time t and
\* have the content c.
CountSame(entries, c, t, w) ==
    Cardinality({i \in 1..Len(entries) : t - entries[i].ts < w /\ entries[i].content = c})

\* The conditions of the four heuristics for the last detect_abuse call, on
\* the windows the call found.
RapidHolds ==
    CountWithin(banop.pre.requests[banop.user], banop.t, RAPID_REQUEST_WINDOW) + 1
        > RAPID_REQUEST_THRESHOLD

BurstHolds == banop.tokens > TOKEN_BURST_THRESHOLD

SpamHolds ==
    /\ banop.content # ""
    /\ CountWithin(banop.pre.messages[banop.user], banop.t, SPAM_WINDOW) + 1
         > SPAM_MESSAGE_THRESHOLD

RepeatHolds ==
    /\ banop.content # ""
    /\ CountSame(banop.pre.content[banop.user], banop.content, banop.t, REPEAT_WINDOW)
         >= REPEAT_THRESHOLD

\* C28: detect_abuse reports the first of rapid requests, token burst, spam
\* and repeated content whose condition holds, reports no abuse exactly when
\* none holds, and always reports a call above the burst threshold.
C28_FirstHeuristicReported ==
    banop.name = "detect_abuse"
    => /\ banop.reason = IF RapidHolds THEN "too_frequent"
                         ELSE IF BurstHolds THEN "token_burst"
                         ELSE IF SpamHolds THEN "spam"
                         ELSE IF RepeatHolds THEN "repeated_content"
                         ELSE "none"
       /\ banop.ok <=> (RapidHolds \/ BurstHolds \/ SpamHolds \/ RepeatHolds)
       /\ banop.ok <=> banop.reason # "none"
       /\ BurstHolds => banop.ok

\* A call is reported for too-frequent requests while its token burst, spam
\* and repeated-content conditions hold as well.
C28_Witness ==
    /\ banop.name = "detect_abuse"
    /\ banop.reason = "too_frequent"
    /\ BurstHolds
    /\ SpamHolds
    /\ RepeatHolds

\* The i-th detect_abuse call of user u with a message reached the repeated-content
\* heuristic, which recorded its message.
Recorded(u, i) == banop.said[u][i].recorded

\* How many messages equal to the one of the last detect_abuse call were
\* recorded for its user less than one window before it, among the calls of
\* the user with a message after the first `from` ones and before this one.
EarlierSame(from) ==
    LET u == banop.user
    IN Cardinality({i \in (from + 1)..(Len(banop.said[u]) - 1) :
                       /\ Recorded(u, i)
                       /\ banop.said[u][i].content = banop.content
                       /\ banop.t - banop.said[u][i].t < REPEAT_WINDOW})

\* The last call was a detect_abuse with a message that no heuristic before
\* the repeated-content one reported.
ReachedRepeat ==
    /\ banop.name = "detect_abuse"
    /\ banop.content # ""
    /\ banop.reason \in {"none", "repeated_content"}

\* C29 as it was stated: a message is reported as repeated content exactly
\* when at least the threshold of earlier messages of the user with the same
\* content were recorded within the trailing window.
C29_Original ==
    ReachedRepeat
    => (banop.reason = "repeated_content" <=> EarlierSame(0) >= REPEAT_THRESHOLD)

\* C29: a message is reported as repeated content exactly when at least the
\* threshold of earlier messages of the user with the same content were
\* recorded within the trailing window since ban_user last dropped the
\* tracking of the user, the current message not counted.
C29_RepeatedSinceLastBan ==
    ReachedRepeat
    => (banop.reason = "repeated_content"
        <=> EarlierSame(banop.cleared[banop.user]) >= REPEAT_THRESHOLD)

\* After a ban the first three identical messages of the user passed and the
\* fourth is reported.
C29_Witness ==
    /\ ReachedRepeat
    /\ banop.reason = "repeated_content"
    /\ banop.placed[banop.user] # <<>>
    /\ EarlierSame(banop.cleared[banop.user]) = REPEAT_THRESHOLD
    /\ Len(banop.said[banop.user]) = banop.cleared[banop.user] + REPEAT_THRESHOLD + 1

\* C30: after ban_user(u) the request, message and content windows of u are
\* empty and those of every other user are what they were before the call.
C30_BanClearsOnlyItsUser ==
    banop.name = "ban"
    => /\ user_requests[banop.user] = <<>>
       /\ user_messages[banop.user] = <<>>
       /\ user_content[banop.user] = <<>>
       /\ \A u \in Users \ {banop.user} :
             /\ user_requests[u] = banop.pre.requests[u]
             /\ user_messages[u] = banop.pre.messages[u]
             /\ user_content[u] = banop.pre.content[u]

\* A user with requests, messages and contents tracked has been banned while
\* another user was tracked too.
C30_Witness ==
    /\ banop.name = "ban"
    /\ banop.pre.requests[banop.user] # <<>>
    /\ banop.pre.messages[banop.user] # <<>>
    /\ banop.pre.content[banop.user] # <<>>
    /\ user_content[banop.user] = <<>>
    /\ \E u \in Users \ {banop.user} : user_content[u] # <<>>

\* ===================================================================
\* Claims about the sessions of routed messages
\* ===================================================================

\* C22: a message whose user (private) or group had its previous message
\* attached to a session that is still ACTIVE is attached to that same
\* session; no new session is created for it.
C22_ActiveSessionReused ==
    (res.kind # "none" /\ res.context_id # NoneId /\ res.earlier_active)
    => res.context_id = res.earlier

\* C23: after a route_message call with a session attached and a non-empty
\* response, the last message of the session is the response with the role
\* assistant, directly after the incoming message with the role user.
C23_ResponseStoredAsAssistant ==
    (/\ res.kind = "return"
     /\ res.success
     /\ res.context_id # NoneId
     /\ res.response # "")
    => LET msgs == hybrid_get(Store, res.context_id, now).ctx.messages
           n == Len(msgs)
       IN /\ n >= 2
          /\ msgs[n].sender_id = "robot"
          /\ msgs[n].role = "assistant"
          /\ msgs[n - 1].sender_id = res.user
          /\ msgs[n - 1].role = "user"

\* ===================================================================
\* Claims about failures of the backends
\* ===================================================================

\* C24: a session-store operation (get_context, add_message, add or remove
\* participant, delete_context, cleanup_expired) and is_banned do not raise to
\* their caller, whatever the cache or the durable store did: a failure shows
\* as a false or absent return value.
C24_BackendFailuresNotRaised ==
    /\ op.name \in {"get", "add_message", "add_participant", "remove_participant",
                     "delete", "cleanup_expired"}
          => ~op.raised
    /\ banop.name = "is_banned" => ~banop.raised

\* C26: get_messages with a limit k >= 1 returns the last min(k, n) of the n
\* messages added to the session, in arrival order, and all n without a
\* limit, for a session of at most max_messages messages.
C26_LastMessagesInOrder ==
    [][(StoreCalled("get_messages") /\ contexts[op'.cid].exists
            /\ Len(messages[op'.cid]) <= MAX_MESSAGES)
       => LET all == messages[op'.cid]
              n == Len(all)
              k == IF op'.limit = NoLimit \/ op'.limit > n THEN n ELSE op'.limit
          IN /\ Len(op'.out.messages) = k
             /\ \A i \in 1..k : op'.out.messages[i] = all[n - k + i]]_vars

\* Three messages were added and get_messages with limit 2 returned the
\* second and the third, in that order.
C26_Witness ==
    /\ op.name = "get_messages"
    /\ op.limit = 2
    /\ Len(messages[op.cid]) = 3
    /\ Len(op.out.messages) = 2
    /\ op.out.messages[1].message_id = 2
    /\ op.out.messages[2].message_id = 3

\* ===================================================================
\* Claims about the stages of a run
\* ===================================================================

\* The stages of the pipeline, in their order.
PipelineStages ==
    <<"preprocessing", "intent_classifying", "context_loading", "processing",
      "postprocessing", "completed">>

\* C27: a run that process returns as COMPLETED entered PREPROCESSING,
\* INTENT_CLASSIFYING, CONTEXT_LOADING, PROCESSING and POSTPROCESSING, each
\* once and in this order, whatever its intent; and a run whose context
\* loading failed carries CONTEXT_LOAD_ERROR and never reached the response
\* generator.
C27_EveryStagePassed ==
    g.pc = "returned"
    => /\ g.st.processing_stage = "completed" => g.stages = PipelineStages
       /\ "CONTEXT_LOAD_ERROR" \in g.failures
             => /\ g.st.error_code = "CONTEXT_LOAD_ERROR"
                /\ \A i \in 1..Len(g.visited) : g.visited[i] # "response_generator"

\* ===================================================================
\* Claims about intent recognition
\* ===================================================================

\* C25: two recognize calls with the same rules and the same text, made by
\* any pipeline runs at any time, return the same intent and confidence, and
\* a recognize call changes neither the rules nor the compiled patterns.
C25_RecognizeIsPure ==
    /\ [](\A r1, r2 \in Runs :
            LET a == recognized[r1]
                b == recognized[r2]
            IN (a.made /\ b.made /\ a.rules = b.rules /\ a.text = b.text)
               => (a.intent = b.intent /\ a.confidence = b.confidence))
    /\ [][recognized' # recognized => recognizer' = recognizer]_vars

\* Two runs asked for the same text under the same rules, and between the
\* two calls the compiled patterns got another order.
C25_Witness ==
    LET a == recognized["run1"]
        b == recognized["run2"]
    IN /\ a.made
       /\ b.made
       /\ a.rules = b.rules
       /\ a.text = b.text
       /\ a.intent = "context_end"
       /\ a.compiled_patterns # b.compiled_patterns

\* ===================================================================
\* Claims about the rules of the recognizer
\* ===================================================================

\* The call one pipeline run made last.
Asked == recognized["run1"]

\* Some rule of intent COMMAND the call found has a keyword in its text.
CommandKeywordIn(a) ==
    \E i \in 1..Len(a.rules) :
        /\ a.rules[i].intent = "command"
        /\ \E k \in 1..Len(a.rules[i].keywords) : a.rules[i].keywords[k] \in a.text.found

\* The rule has a keyword in the text or, failing that, a pattern that
\* matches it.
RuleFits(rule, text) ==
    \/ \E k \in 1..Len(rule.keywords) : rule.keywords[k] \in text.found
    \/ \E j \in 1..Len(rule.patterns) :
          rule.patterns[j] = ".*" \/ rule.patterns[j] \in text.found

\* C31: a text that starts with a command marker and holds a keyword of a
\* COMMAND rule is recognized as COMMAND with confidence 0.95, whatever other
\* rule matches it; a text without the marker is never recognized as COMMAND.
C31_CommandBeforePriority ==
    (Asked.made /\ ~Asked.text.blank)
    => /\ (Asked.text.slash /\ CommandKeywordIn(Asked))
             => (Asked.intent = "command" /\ Asked.confidence = 95)
       /\ ~Asked.text.slash => Asked.intent # "command"

\* A command text that a rule above the COMMAND rule fits too was recognized
\* as COMMAND.
C31_Witness ==
    /\ Asked.made
    /\ Asked.text.slash
    /\ Asked.intent = "command"
    /\ Asked.confidence = 95
    /\ \E i, c \in 1..Len(Asked.rules) :
          /\ Asked.rules[c].intent = "command"
          /\ Asked.rules[i].priority > Asked.rules[c].priority
          /\ RuleFits(Asked.rules[i], Asked.text)

\* The intent the ordered rules among `among` give the text of the call: the
\* one of the first rule that fits, which no fitting rule precedes in
\* priority, and CHAT with confidence 0.5 exactly when no rule fits.
FirstFitGiven(a, among) ==
    LET fits == {i \in among : RuleFits(a.rules[i], a.text)}
    IN /\ fits = {} <=> (a.intent = "chat" /\ a.confidence = 50)
       /\ fits # {}
            => \E i \in fits :
                  /\ \A k \in fits : i <= k
                  /\ \A k \in fits : a.rules[i].priority >= a.rules[k].priority
                  /\ a.intent = a.rules[i].intent

Times(seq, x) == Cardinality({i \in 1..Len(seq) : seq[i] = x})

\* C33: the rule list is in descending priority, the compiled patterns are
\* exactly the patterns of the rules in the list, and
\* remove_rules_by_intent returns the number of rules of the intent it found
\* and leaves none of them: 0 when called again for the same intent.
C33_RulesStayConsistent ==
    LET rules == recognizer.rules
        compiled == recognizer.compiled_patterns
    IN /\ \A i, k \in 1..Len(rules) : i < k => rules[i].priority >= rules[k].priority
       /\ \A j \in 1..Len(compiled) :
             /\ Times(rules, compiled[j].rule) >= 1
             /\ Times(compiled, compiled[j])
                  = Times(rules, compiled[j].rule)
                    * Times(compiled[j].rule.patterns, compiled[j].pattern)
       /\ \A i \in 1..Len(rules) : \A p \in 1..Len(rules[i].patterns) :
             Times(compiled, [rule |-> rules[i], pattern |-> rules[i].patterns[p]]) >= 1
       /\ ruleop.name = "remove_rules_by_intent"
             => /\ ruleop.removed = ruleop.held
                /\ \A i \in 1..Len(rules) : rules[i].intent # ruleop.intent
                /\ ruleop.again => ruleop.removed = 0

\* The rules of an intent were removed, some being held, and the next call
\* for the same intent returned 0; a rule had been added before.
C33_Witness ==
    /\ ruleop.name = "remove_rules_by_intent"
    /\ ruleop.again
    /\ ruleop.removed = 0
    /\ ruleop.intent = "weather"
    /\ \E i \in 1..Len(recognizer.rules) : recognizer.rules[i] = UrgentRule
    /\ Len(recognizer.compiled_patterns) > 0

\* ===================================================================
\* Claims about the daily reset
\* ===================================================================

\* The frame of a get_quota call that found a row and has just returned.
QuotaRead(f) == f.pc = "done" /\ f.ret = "quota" /\ f.pre.exists

\* but for the daily fields, the row is the one the call found
SameButDaily(f) ==
    /\ quotas[f.user].used = f.pre.used
    /\ quotas[f.user].total_quota = f.pre.total_quota
    /\ quotas[f.user].daily_limit = f.pre.daily_limit
    /\ quotas[f.user].minute_limit = f.pre.minute_limit

\* C34 as it was stated: an access at or after daily_reset sets daily_used to
\* 0 and moves daily_reset 24 hours on from its old value.
C34_Original ==
    \A p \in Procs :
        LET f == procs[p]
        IN (QuotaRead(f) /\ f.t0 >= f.pre.daily_reset)
           => /\ quotas[f.user].daily_used = 0
              /\ quotas[f.user].daily_reset = f.pre.daily_reset + DaySeconds
              /\ SameButDaily(f)

\* C34: a get_quota at a time now >= daily_reset sets daily_used to 0 and
\* daily_reset to now + 24 hours and leaves used, total_quota and the limits
\* as they were; a get_quota at a time now < daily_reset changes no daily
\* field. The TokenQuota returned carries the same values.
C34_DailyResetOnAccess ==
    \A p \in Procs :
        LET f == procs[p]
        IN QuotaRead(f)
           => /\ SameButDaily(f)
              /\ f.q.daily_used = quotas[f.user].daily_used
              /\ f.q.daily_reset = quotas[f.user].daily_reset
              /\ IF f.t0 >= f.pre.daily_reset
                 THEN /\ quotas[f.user].daily_used = 0
                      /\ quotas[f.user].daily_reset = f.t0 + DaySeconds
                 ELSE /\ quotas[f.user].daily_used = f.pre.daily_used
                      /\ quotas[f.user].daily_reset = f.pre.daily_reset

\* A quota with tokens used today was read after its reset time had passed.
C34_Witness ==
    \E p \in Procs :
        LET f == procs[p]
        IN /\ QuotaRead(f)
           /\ f.t0 > f.pre.daily_reset
           /\ f.pre.daily_used > 0
           /\ quotas[f.user].daily_used = 0

\* ---- maintenance of the session store

\* The durable sessions that are ACTIVE with an expiry time earlier than now.
DueSessions ==
    {c \in CtxIdSet : /\ contexts[c].exists
                      /\ contexts[c].status = "active"
                      /\ contexts[c].expires_at # NoneTime
                      /\ contexts[c].expires_at < now}

\* C35: cleanup_expired changes to EXPIRED exactly the durable sessions that
\* are ACTIVE with an expiry time earlier than now, leaves every other session
\* unchanged, and returns the number of sessions whose status it changed.
C35_CleanupMarksDueSessions ==
    [][StoreCalled("cleanup_expired") =>
          /\ ~op'.raised
          /\ \A c \in CtxIdSet :
                contexts'[c] = IF c \in DueSessions
                               THEN [contexts[c] EXCEPT !.status = "expired"]
                               ELSE contexts[c]
          /\ op'.count = Cardinality(DueSessions)]_vars

\* The durable sessions list_active_contexts(user_id) is to return.
ActiveDurable(user_id) ==
    {c \in CtxIdSet : /\ contexts[c].exists
                      /\ contexts[c].status = "active"
                      /\ \/ user_id = NoneId
                         \/ \E i \in 1..Len(contexts[c].participants) :
                               contexts[c].participants[i] = user_id}

\* C36: list_active_contexts returns exactly the durable sessions whose status
\* is ACTIVE and, when a user is given, whose participants include that user,
\* whatever the cache holds.
C36_ListActiveFromDurableStore ==
    op.name = "list_active" => op.listed = ActiveDurable(op.user)

\* ---- what route_message leaves alone

\* C37: route_message never consumes quota or feeds the abuse tracker: after
\* any sequence of route_message calls a user's used is what it was, daily_used
\* is what it was or 0 after the daily reset, the minute-request log has no
\* entry it did not have, a row created on the way is the default row with
\* nothing used, and no sliding window of the abuse tracker holds anything.
C37_RoutingConsumesNothing ==
    \A u \in Users :
        LET q0 == quotas0[u]
            q == quotas[u]
        IN /\ user_requests[u] = <<>>
           /\ user_messages[u] = <<>>
           /\ user_content[u] = <<>>
           /\ ~q.exists => ~q0.exists
           /\ q.exists /\ ~q0.exists =>
                 /\ q.used = 0
                 /\ q.daily_used = 0
                 /\ q.minute_requests = <<>>
           /\ q.exists /\ q0.exists =>
                 /\ q.used = q0.used
                 /\ \/ q.daily_used = q0.daily_used
                    \/ q.daily_used = 0 /\ q.daily_reset > q0.daily_reset
                 /\ Len(q.minute_requests) <= Len(q0.minute_requests)
                 /\ \A i \in 1..Len(q.minute_requests) :
                       \E j \in 1..Len(q0.minute_requests) :
                           q.minute_requests[i] = q0.minute_requests[j]

\* Two route_message calls of a user with a quota row were let through and the
\* second one returned its response.
C37_Witness ==
    /\ calls >= 2
    /\ res.kind = "return"
    /\ res.success
    /\ res.allowed
    /\ quotas0[res.user].exists
    /\ quotas0[res.user].used > 0
    /\ quotas[res.user].used = quotas0[res.user].used

\* A routed message found the row due for its daily reset and reset it.
C37_WitnessReset ==
    /\ res.kind = "return"
    /\ res.user = "u1"
    /\ quotas0["u1"] = OverdueQuota
    /\ quotas["u1"].daily_used = 0

\* C38: a private message (no group id) is only ever appended to a session of
\* type PRIVATE, also for a user who earlier sent a message in a group.
C38_PrivateMessageInPrivateSession ==
    /\ res.kind \in {"running", "return"}
    /\ res.boundary = "none"
    /\ res.group_id = NoneId
    /\ res.context_id # NoneId
    => contexts[res.context_id].type = "private"

\* ---- add_message calls that interleave

\* Both add_message coroutines returned True for the session get_messages was
\* then asked for.
BothAdded ==
    /\ op.name = "get_messages"
    /\ \A k \in AddIds : adds[k].pc = "done" /\ adds[k].ok /\ adds[k].cid = op.cid

\* C39: when two add_message calls on the same session interleave at their
\* await points and both return true, both messages are in the list that a
\* subsequent get_messages returns for that session.
C39_BothMessagesReturned ==
    BothAdded =>
        \A k \in AddIds :
            \E i \in 1..Len(op.out.messages) : op.out.messages[i] = adds[k].message

\* ---- the pre-check of a banned user

\* C40: a user whose only bans are TEMPORARY is never given the permanent-ban
\* denial text by the pre-check, also when the ban expires between the
\* is_banned lookup and the remaining-time lookup of the same pre-check.
C40_TemporaryNeverPermanentText ==
    /\ res.kind = "pre_check"
    /\ \A i \in 1..Len(bans[res.user]) : bans[res.user][i].ban_type = "temporary"
    => res.reason # REASON_BAN_PERMANENT

====
